---- MODULE Spec2Model ----
(***************************************************************************)
(* zestic/oauth-expo: the useOAuthCallback hook, the OAuthCallbackScreen   *)
(* component that hosts it, ExpoOAuthAdapter.handleCallback, and the token *)
(* store: ExpoStorageAdapter with the session methods of ExpoOAuthAdapter. *)
(*                                                                         *)
(* JavaScript runs each task to completion, so one action is one task:     *)
(* a render with the effects it commits, the synchronous prefix of         *)
(* handleCallback up to its await, the continuation after the await, a     *)
(* timer callback, an unmount with its effect cleanups.                    *)
(***************************************************************************)
EXTENDS Integers, Sequences, FiniteSets, TLC

\* Bounds of the model: the handling attempts of one hook instance, under a
\* caller of the hook and under OAuthCallbackScreen
MaxAttempts == 2
MaxScreenAttempts == 3

DefaultRedirectDelay == 1500

ProcessingMessage == "Processing OAuth callback..."
SuccessMessage == "Authentication successful"
FailedMessage == "OAuth authentication failed"
UnknownMessage == "Unknown error occurred"

VARIABLES
  life,            \* "new" (not mounted yet), "mounted", "unmounted"
  host,            \* "hook": a caller of useOAuthCallback; "screen": OAuthCallbackScreen
  props,           \* the props/options of the last committed render
  status,          \* useState: status
  message,         \* useState: message
  shown,           \* the status and message the last committed render returned
  inflight,        \* handling attempts whose adapter.handleCallback has not settled
  autoCalls,       \* attempts started by the auto-start effect
  callerCalls,     \* attempts started by retry() / handleCallback() of the caller
  onSuccessCalls,  \* invocations of options.onSuccess
  timers,          \* pending setTimeout handles of the auto-redirect effect
  ownTimer,        \* the handle the committed effect's cleanup will clear, 0 if none
  timerDeps,       \* dependency values of the committed auto-redirect effect
  timersMade,      \* setTimeout calls so far
  last,            \* what the last task did: its kind, the attempt, the callbacks it invoked
  adPc,            \* ExpoOAuthAdapter.handleCallback: "idle", "waiting" (core called), "done"
  adParams,        \* the params object it was called with: its entries in order
  adQuery,         \* the URLSearchParams it passed to the core: its pairs in order
  adCoreOut,       \* what the core's promise settled with
  adResult,        \* what the promise of handleCallback settled with
  store,           \* AsyncStorage: key -> the string stored, StNull if none
  now,             \* Date.now(), in milliseconds
  call,            \* the storage or session call that just completed
  session,         \* what the completed calls established: tokens stored until a time, or cleared
  pkce,            \* the PKCE call in progress or just completed, and what it settled with
  http,            \* the HTTP request in progress or just completed
  log,             \* the events of the callback attempt, in the order they happened
  tasks,           \* the overlapping session calls in progress: where each one is
  oauthConfig      \* useOAuthConfig: the options of the last render, what is memoized, the last call

hookVars == <<life, host, props, status, message, shown, inflight, autoCalls,
              callerCalls, onSuccessCalls, timers, ownTimer, timerDeps, timersMade,
              last>>

adapterVars == <<adPc, adParams, adQuery, adCoreOut, adResult>>

sessionVars == <<store, now, call, session>>

serviceVars == <<pkce, http, log, tasks, oauthConfig>>

vars == <<hookVars, adapterVars, sessionVars, serviceVars>>

\* The variables outside the hook and the screen, outside the adapter's
\* handleCallback, and outside the token store
outsideHook == <<adapterVars, sessionVars, serviceVars>>
outsideAdapter == <<hookVars, sessionVars, serviceVars>>
outsideSession == <<hookVars, adapterVars, serviceVars>>
outsidePkce == <<hookVars, adapterVars, sessionVars, http, log, tasks, oauthConfig>>
outsideHttp == <<hookVars, adapterVars, sessionVars, pkce, log, tasks, oauthConfig>>

---------------------------------------------------------------------------
(* JavaScript values: a tag, a string and a number *)
JsUndefined == [t |-> "undefined", s |-> "", n |-> 0]
JsNull == [t |-> "null", s |-> "", n |-> 0]
JsString(x) == [t |-> "string", s |-> x, n |-> 0]
JsNumber(x) == [t |-> "number", s |-> "", n |-> x]

\* String(value)
StringOf(v) ==
  CASE v.t = "string" -> v.s
    [] v.t = "number" -> ToString(v.n)
    [] v.t = "null" -> "null"
    [] OTHER -> "undefined"

\* value || fallback, for a string-or-undefined value
OrElse(v, fallback) ==
  IF (v.t = "string" /\ v.s # "") \/ (v.t = "number" /\ v.n # 0)
  THEN StringOf(v) ELSE fallback

---------------------------------------------------------------------------
(* What a promise settles with, what is thrown and what a callback gets:  *)
(* one record shape. origin is "core" for values made by the core, "hook" *)
(* for Errors the hook constructs, "callback" for what onSuccess throws.  *)
Payload(kind, success, error, isError, msg, origin) ==
  [kind |-> kind, success |-> success, error |-> error,
   isError |-> isError, message |-> msg, origin |-> origin]

NoPayload == Payload("none", FALSE, JsUndefined, FALSE, "", "none")

ResultErrors == {JsUndefined, JsString(""), JsString("access_denied")}

\* The outcomes of oauthCore.handleCallback (external): a result with
\* success true, a result with success false and an optional error text, a
\* rejection with an Error, a rejection with a value that is not an Error.
CoreOutcomes ==
  {Payload("resolve", TRUE, JsUndefined, FALSE, "", "core")}
  \cup {Payload("resolve", FALSE, e, FALSE, "", "core") : e \in ResultErrors}
  \cup {Payload("reject", FALSE, JsUndefined, TRUE, "Network error", "core"),
        Payload("reject", FALSE, JsUndefined, FALSE, "", "core")}

CallbackError == Payload("reject", FALSE, JsUndefined, TRUE, "callback failed", "callback")

Call(cb, arg) == [cb |-> cb, arg |-> arg]

---------------------------------------------------------------------------
(* Props *)
HookProps ==
  [autoStart : BOOLEAN, onSuccess : {"none", "f1"}, onError : BOOLEAN,
   onRetry : {FALSE}, autoRedirect : {FALSE}, redirectDelay : {0}]

ScreenProps ==
  [autoStart : {TRUE}, onSuccess : {"none", "f1"}, onError : {TRUE},
   onRetry : BOOLEAN, autoRedirect : BOOLEAN,
   redirectDelay : {0, DefaultRedirectDelay}]

PropsFor(h) == IF h = "screen" THEN ScreenProps ELSE HookProps

InitialProps ==
  [autoStart |-> TRUE, onSuccess |-> "none", onError |-> FALSE,
   onRetry |-> FALSE, autoRedirect |-> FALSE, redirectDelay |-> 0]

Identities == {"params", "config", "options"}

\* The identities that changed since the last render. OAuthCallbackScreen
\* builds the options object inline: a new identity on every render. A caller
\* of the hook may pass stable or new objects.
ChangedFor(h) ==
  IF h = "screen" THEN {{"options"}}
  ELSE {{}, {"params"}, {"config"}, {"options"}}

NoDeps == [status |-> "none", autoRedirect |-> FALSE, redirectDelay |-> 0, onSuccess |-> "none"]

NoAttempt == [id |-> 0, origin |-> "none", onSuccess |-> "none", onError |-> FALSE]

\* What a task did: its kind, the attempt it started or finished, whether the
\* component was mounted, what the delegated call settled with, whether the
\* onSuccess callback threw, the callbacks invoked and the number of
\* setStatus/setMessage calls issued
Event(ev, attempt, mounted, out, threw, calls, sets) ==
  [ev |-> ev, attempt |-> attempt, mounted |-> mounted, out |-> out,
   threw |-> threw, calls |-> calls, sets |-> sets]

NoEvent == Event("none", NoAttempt, FALSE, NoPayload, FALSE, <<>>, 0)

handleCalls == autoCalls + callerCalls

---------------------------------------------------------------------------
(* useOAuthCallback *)

\* useCallback(..., [params, config, options]): a new handleCallback iff one
\* of the three identities changed since the last render
HandleCallbackChanged(changed) == changed \cap Identities # {}

\* useEffect(..., [handleCallback, options?.autoStart])
EffectDepsChanged(changed, oldAuto, newAuto) ==
  HandleCallbackChanged(changed) \/ oldAuto # newAuto

\* Mutant of AutoStarts: the effect starts handling whatever autoStart is
AutoStartsAlways(p) == TRUE

\* if (options?.autoStart !== false) handleCallback()
AutoStarts(p) == p.autoStart # FALSE

\* The attempt handleCallback starts: it closes over the options of the
\* render that created it
NewAttempt(origin, p) ==
  [id |-> handleCalls + 1, origin |-> origin, onSuccess |-> p.onSuccess, onError |-> p.onError]

\* Mutant of Begin: the attempt starts without resetting status and message
BeginKeepsStatus(origin, p) ==
  /\ handleCalls < (IF host = "screen" THEN MaxScreenAttempts ELSE MaxAttempts)
  /\ UNCHANGED <<status, message>>
  /\ inflight' = inflight \cup {NewAttempt(origin, p)}

\* handleCallback up to its await: setStatus, setMessage, new adapter,
\* adapter.handleCallback(params)
Begin(origin, p) ==
  /\ handleCalls < (IF host = "screen" THEN MaxScreenAttempts ELSE MaxAttempts)
  /\ status' = "processing"
  /\ message' = ProcessingMessage
  /\ inflight' = inflight \cup {NewAttempt(origin, p)}

\* adapter.handleCallback returns what the core returns
AdapterReturn(out) == out

\* Mutant of Caught: the generic message whatever was thrown, and a new Error
CaughtGeneric(a, thrown, before, sets) ==
  [status |-> "error", message |-> UnknownMessage, sets |-> sets + 2,
   calls |-> IF a.onError
             THEN before \o <<Call("onError", Payload("reject", FALSE, JsUndefined, TRUE,
                                                      UnknownMessage, "hook"))>>
             ELSE before]

\* The catch block: status, message and the onError call for a thrown value
Caught(a, thrown, before, sets) ==
  LET errorMessage == IF thrown.isError THEN thrown.message ELSE UnknownMessage
      arg == IF thrown.isError THEN thrown
             ELSE Payload("reject", FALSE, JsUndefined, TRUE, errorMessage, "hook")
  IN [status |-> "error", message |-> errorMessage, sets |-> sets + 2,
      calls |-> IF a.onError THEN before \o <<Call("onError", arg)>> ELSE before]

\* Mutant of HandleSettled: every resolved result counts as a success
HandleSettledIgnoresFlag(a, out, cbThrows) ==
  IF out.kind = "reject"
  THEN [status |-> "error", message |-> out.message, sets |-> 2, calls |-> <<>>]
  ELSE [status |-> "success", message |-> SuccessMessage, sets |-> 2,
        calls |-> IF a.onSuccess # "none" THEN <<Call("onSuccess", out)>> ELSE <<>>]

\* handleCallback after its await, for attempt a whose delegated call
\* settled with out; cbThrows: the onSuccess callback throws
HandleSettled(a, out, cbThrows) ==
  IF out.kind = "reject" THEN Caught(a, out, <<>>, 0)
  ELSE IF out.success
    THEN IF a.onSuccess # "none"
         THEN IF cbThrows
              THEN Caught(a, CallbackError, <<Call("onSuccess", out)>>, 2)
              ELSE [status |-> "success", message |-> SuccessMessage, sets |-> 2,
                    calls |-> <<Call("onSuccess", out)>>]
         ELSE [status |-> "success", message |-> SuccessMessage, sets |-> 2,
               calls |-> <<>>]
    ELSE Caught(a,
                Payload("reject", FALSE, JsUndefined, TRUE,
                        OrElse(out.error, FailedMessage), "hook"),
                <<>>, 0)

CountCalls(calls, cb) == Cardinality({i \in 1..Len(calls) : calls[i].cb = cb})

---------------------------------------------------------------------------
(* OAuthCallbackScreen: the auto-redirect effect *)

TimerDepsOf(st, p) ==
  [status |-> st, autoRedirect |-> p.autoRedirect,
   redirectDelay |-> p.redirectDelay, onSuccess |-> p.onSuccess]

\* status === 'success' && autoRedirect && onSuccess
SchedulesTimer(deps) ==
  deps.status = "success" /\ deps.autoRedirect /\ deps.onSuccess # "none"

\* Mutant of Cleared: the cleanup clears nothing
ClearedNone(ts, own) == ts

\* return () => clearTimeout(timer): the pending timers after the cleanup
Cleared(ts, own) == {t \in ts : t.id # own}

\* The effect on a commit that rendered status st with props p
TimerEffect(st, p) ==
  LET deps == TimerDepsOf(st, p) IN
  IF host # "screen" THEN UNCHANGED <<timers, ownTimer, timerDeps, timersMade>>
  ELSE IF deps = timerDeps THEN UNCHANGED <<timers, ownTimer, timerDeps, timersMade>>
  ELSE /\ timerDeps' = deps
       /\ IF SchedulesTimer(deps)
          THEN /\ timers' = Cleared(timers, ownTimer)
                             \cup {[id |-> timersMade + 1, delay |-> deps.redirectDelay]}
               /\ ownTimer' = timersMade + 1
               /\ timersMade' = timersMade + 1
          ELSE /\ timers' = Cleared(timers, ownTimer)
               /\ ownTimer' = 0
               /\ UNCHANGED timersMade

---------------------------------------------------------------------------
(* ExpoOAuthAdapter.handleCallback *)

ParamKeys == {"code", "state", "error"}
ParamValues == {JsNull, JsUndefined, JsString("X"), JsString(""), JsNumber(7)}
MaxParams == 2

Entry(k, v) == [k |-> k, v |-> v]
Pair(k, s) == [k |-> k, s |-> s]

\* Object.entries(params) of the params objects with at most MaxParams
\* properties: sequences of entries with distinct keys
ParamObjects ==
  {es \in UNION {[1..n -> [k : ParamKeys, v : ParamValues]] : n \in 0..MaxParams} :
     \A i, j \in DOMAIN es : i # j => es[i].k # es[j].k}

\* URLSearchParams.set(key, value): the first pair of that key gets the
\* value and the later pairs of the key are removed; a new key is appended
UrlSet(q, k, s) ==
  IF \E i \in DOMAIN q : q[i].k = k
  THEN LET first == CHOOSE i \in DOMAIN q : q[i].k = k /\ \A j \in 1..(i - 1) : q[j].k # k
       IN SubSeq(q, 1, first - 1) \o <<Pair(k, s)>>
          \o SelectSeq(SubSeq(q, first + 1, Len(q)), LAMBDA x : x.k # k)
  ELSE Append(q, Pair(k, s))

\* Mutant of ToUrlParams: only null is filtered out
RECURSIVE ToUrlParamsKeepsUndefined(_, _)
ToUrlParamsKeepsUndefined(entries, q) ==
  IF entries = <<>> THEN q
  ELSE LET e == Head(entries) IN
       ToUrlParamsKeepsUndefined(Tail(entries),
                                 IF e.v # JsNull THEN UrlSet(q, e.k, StringOf(e.v)) ELSE q)

\* Object.entries(params).forEach(([key, value]) => { if (value !== null &&
\* value !== undefined) urlParams.set(key, String(value)) }), from query q
RECURSIVE ToUrlParams(_, _)
ToUrlParams(entries, q) ==
  IF entries = <<>> THEN q
  ELSE LET e == Head(entries) IN
       ToUrlParams(Tail(entries),
                   IF e.v # JsNull /\ e.v # JsUndefined
                   THEN UrlSet(q, e.k, StringOf(e.v)) ELSE q)

---------------------------------------------------------------------------
(* The token store: AsyncStorage behind ExpoStorageAdapter *)

\* Bound of the model: the ticks of the clock
MaxTicks == 2

\* Date.now() after i ticks: half a second per tick, so that a token stored
\* with expiresIn = 1 is seen before, at and after its expiry
TimeAt(i) == 1000 + 500 * i
TickMs == TimeAt(1) - TimeAt(0)

MsPerSecond == 1000
Radix == 10

\* Values of the store and of the storage calls: a tag, the characters of a
\* string, a number. A string is the sequence of its characters, so that
\* toString and parseInt are computed on the digits.
StUndefined == [t |-> "undefined", cs |-> <<>>, n |-> 0]
StNull == [t |-> "null", cs |-> <<>>, n |-> 0]
StString(cs) == [t |-> "string", cs |-> cs, n |-> 0]
StNumber(x) == [t |-> "number", cs |-> <<>>, n |-> x]
StNaN == [t |-> "NaN", cs |-> <<>>, n |-> 0]

\* if (v), !v, v || w, v ? a : b
Truthy(v) ==
  CASE v.t = "string" -> v.cs # <<>>
    [] v.t = "number" -> v.n # 0
    [] OTHER -> FALSE

DigitChars == <<"0", "1", "2", "3", "4", "5", "6", "7", "8", "9">>
IsDigit(c) == \E d \in 1..Radix : DigitChars[d] = c
DigitValue(c) == (CHOOSE d \in 1..Radix : DigitChars[d] = c) - 1

RECURSIVE Digits(_)
Digits(x) ==
  IF x < Radix THEN <<DigitChars[x + 1]>>
  ELSE Append(Digits(x \div Radix), DigitChars[(x % Radix) + 1])

\* Number.prototype.toString() of an integer
NumberToString(x) == IF x < 0 THEN <<"-">> \o Digits(0 - x) ELSE Digits(x)

RECURSIVE ParseDigits(_, _, _)
ParseDigits(cs, i, acc) ==
  IF i > Len(cs) \/ ~IsDigit(cs[i]) THEN acc
  ELSE ParseDigits(cs, i + 1, acc * Radix + DigitValue(cs[i]))

\* parseInt(cs, 10): an optional sign, then the leading digits; NaN if none
ParseInt(cs) ==
  LET signed == Len(cs) > 0 /\ cs[1] \in {"-", "+"}
      first == IF signed THEN 2 ELSE 1
  IN IF first > Len(cs) \/ ~IsDigit(cs[first]) THEN StNaN
     ELSE StNumber((IF signed /\ cs[1] = "-" THEN 0 - 1 ELSE 1) * ParseDigits(cs, first, 0))

\* Date.now() >= v: false for NaN
NowAtLeast(t, v) == v.t = "number" /\ t >= v.n

OAuthKeys ==
  <<"access_token", "refresh_token", "token_expiry", "token_type", "oauth_state",
    "oauth_state_expiry", "pkce_code_verifier", "pkce_code_challenge",
    "pkce_code_challenge_method">>
ReservedKeys == {OAuthKeys[i] : i \in 1..Len(OAuthKeys)}
TokenKeys == {"access_token", "refresh_token", "token_expiry", "token_type"}
\* A key of the application in the same AsyncStorage
OtherKeys == {"app_theme"}
Keys == ReservedKeys \cup OtherKeys

BearerChars == <<"B", "e", "a", "r", "e", "r">>

\* storeTokens' argument. Tokens are non-empty strings (RFC 6749: 1*VSCHAR);
\* refreshToken and expiresIn are optional, expiresIn in seconds.
TokenInputs ==
  [accessToken : {StString(<<"a">>), StString(<<"b">>)},
   refreshToken : {StUndefined, StString(<<"r">>)},
   expiresIn : {StUndefined, StNumber(0 - 1), StNumber(0), StNumber(1)}]

NoTokens == [accessToken |-> StUndefined, refreshToken |-> StUndefined,
             expiresIn |-> StUndefined]

\* TokenData, as getTokens returns it
TokenData(a, r, e, ty) ==
  [accessToken |-> a, refreshToken |-> r, expiresAt |-> e, tokenType |-> ty]
NoData == TokenData(StUndefined, StUndefined, StUndefined, StUndefined)

\* The arguments of isTokenExpired(expiresAt?)
ExpiresAtInputs == {StUndefined, StNull, StNumber(0), StNumber(TimeAt(1))}

\* The store a fresh installation starts from: no OAuth key, one foreign key
EmptyStore == [k \in Keys |-> IF k \in OtherKeys THEN StString(<<"d">>) ELSE StNull]

\* How a call of AsyncStorage ends: it resolves, or rejects with an Error
\* (text: its message) or with a value that is not an Error (text: String(value))
StoreOutcome(rejects, isError, text) ==
  [rejects |-> rejects, isError |-> isError, text |-> text]
Resolves == StoreOutcome(FALSE, FALSE, "")
Rejections ==
  {StoreOutcome(TRUE, TRUE, "Storage error"), StoreOutcome(TRUE, TRUE, ""),
   StoreOutcome(TRUE, FALSE, "boom")}

\* An Error made by the adapter: its message, as the pieces of the template literal
ErrorOf(parts) == [isError |-> TRUE, message |-> parts]
NoError == [isError |-> FALSE, message |-> <<>>]

\* `${error}`: String(error). An Error prints as "Error: message", as
\* "Error" when its message is empty
CauseString(cause) ==
  IF cause.isError
  THEN (IF cause.text = "" THEN <<"Error">> ELSE <<"Error: ", cause.text>>)
  ELSE <<cause.text>>

\* keys.join(', ')
RECURSIVE Join(_)
Join(keys) ==
  IF keys = <<>> THEN <<>>
  ELSE IF Len(keys) = 1 THEN <<keys[1]>>
  ELSE <<keys[1], ", ">> \o Join(Tail(keys))

\* The call that just completed: its arguments, whether its promise
\* rejected (threw), whether a storage or core call inside it failed
\* (failed), what it resolved with, the keys it read, the keys it removed;
\* for setItem / getItem / removeItem / removeItems also the keys passed, how
\* the AsyncStorage call ended and the Error the call rejected with
NoCall ==
  [op |-> "none", tokens |-> NoTokens, expiresAt |-> StUndefined, threw |-> FALSE,
   failed |-> FALSE, bool |-> FALSE, value |-> StUndefined, data |-> NoData,
   reads |-> {}, removed |-> {}, keys |-> <<>>, cause |-> Resolves, error |-> NoError]

\* The keys that held a value in store before and hold none in store after
RemovedKeys(before, after) == {k \in Keys : before[k] # StNull /\ after[k] = StNull}

\* What the completed calls established: "stored" (storeTokens with a positive
\* expiresIn resolved: its token, valid until a time), "cleared" (logout
\* resolved), "none" otherwise
NoSession == [state |-> "none", token |-> StNull, until |-> 0]

Write(k, cs) == [k |-> k, cs |-> cs]

\* The store after the first n of the setItem calls ws
RECURSIVE ApplyWrites(_, _, _)
ApplyWrites(st, ws, n) ==
  IF n = 0 THEN st
  ELSE [ApplyWrites(st, ws, n - 1) EXCEPT ![ws[n].k] = StString(ws[n].cs)]

\* AsyncStorage.multiRemove(keys) that removed the first n keys
MultiRemoved(st, keys, n) ==
  [k \in Keys |-> IF \E i \in 1..n : keys[i] = k THEN StNull ELSE st[k]]

---------------------------------------------------------------------------
(* ExpoStorageAdapter *)

\* How AsyncStorage.multiRemove can end: every key removed and resolved, or
\* rejected after the first n keys were removed: none of them, the first
\* one only, all of them
RemoveOutcomes ==
  {[n |-> Len(OAuthKeys), rejected |-> FALSE]}
    \cup {[n |-> i, rejected |-> TRUE] : i \in {0, 1, Len(OAuthKeys)}}

\* removeItems(keys): a rejection of multiRemove is rethrown as one Error
RemoveItemsSwallows(st, keys, n, rejected) ==
  [store |-> MultiRemoved(st, keys, n), threw |-> FALSE]

RemoveItems(st, keys, n, rejected) ==
  [store |-> MultiRemoved(st, keys, n), threw |-> rejected]

GetItem(st, k) == st[k]

\* The four wrappers of AsyncStorage: try the call, rethrow a rejection as an
\* Error that names the key(s) and embeds the cause
Wrapped(st, threw, error, value) ==
  [store |-> st, threw |-> threw, error |-> error, value |-> value]

TrySetItem(st, k, cs, outcome) ==
  IF outcome.rejects
  THEN Wrapped(st, TRUE,
               ErrorOf(<<"Failed to store item with key \"", k, "\": ">>
                         \o CauseString(outcome)), StUndefined)
  ELSE Wrapped([st EXCEPT ![k] = StString(cs)], FALSE, NoError, StUndefined)

TryGetItemDefaultsToNull(st, k, outcome) ==
  IF outcome.rejects THEN Wrapped(st, FALSE, NoError, StNull)
  ELSE Wrapped(st, FALSE, NoError, GetItem(st, k))

TryGetItem(st, k, outcome) ==
  IF outcome.rejects
  THEN Wrapped(st, TRUE,
               ErrorOf(<<"Failed to retrieve item with key \"", k, "\": ">>
                         \o CauseString(outcome)), StUndefined)
  ELSE Wrapped(st, FALSE, NoError, GetItem(st, k))

TryRemoveItem(st, k, outcome) ==
  IF outcome.rejects
  THEN Wrapped(st, TRUE,
               ErrorOf(<<"Failed to remove item with key \"", k, "\": ">>
                         \o CauseString(outcome)), StUndefined)
  ELSE Wrapped([st EXCEPT ![k] = StNull], FALSE, NoError, StUndefined)

\* n: the keys multiRemove removed before it rejected
TryRemoveItems(st, keys, n, outcome) ==
  IF outcome.rejects
  THEN Wrapped(MultiRemoved(st, keys, n), TRUE,
               ErrorOf(<<"Failed to remove items with keys \"">> \o Join(keys)
                         \o <<"\": ">> \o CauseString(outcome)), StUndefined)
  ELSE Wrapped(MultiRemoved(st, keys, Len(keys)), FALSE, NoError, StUndefined)


ClearOAuthStorageTokensOnly(st, n, rejected) ==
  RemoveItems(st, SubSeq(OAuthKeys, 1, 4), IF n > 4 THEN 4 ELSE n, rejected)

ClearOAuthStorage(st, n, rejected) == RemoveItems(st, OAuthKeys, n, rejected)

StoreTokensWritesInSeconds(tokens, t) ==
  <<Write("access_token", tokens.accessToken.cs)>>
  \o (IF Truthy(tokens.refreshToken)
      THEN <<Write("refresh_token", tokens.refreshToken.cs)>> ELSE <<>>)
  \o (IF Truthy(tokens.expiresIn)
      THEN <<Write("token_expiry", NumberToString(t + tokens.expiresIn.n))>>
      ELSE <<>>)
  \o <<Write("token_type", BearerChars)>>

\* The setItem calls of storeTokens(tokens) at time t, in order
StoreTokensWrites(tokens, t) ==
  <<Write("access_token", tokens.accessToken.cs)>>
  \o (IF Truthy(tokens.refreshToken)
      THEN <<Write("refresh_token", tokens.refreshToken.cs)>> ELSE <<>>)
  \o (IF Truthy(tokens.expiresIn)
      THEN <<Write("token_expiry", NumberToString(t + tokens.expiresIn.n * MsPerSecond))>>
      ELSE <<>>)
  \o <<Write("token_type", BearerChars)>>

StoreTokensClearsAbsent(st, tokens, t, failAt) ==
  LET ws == StoreTokensWrites(tokens, t)
      done == IF failAt = 0 THEN Len(ws) ELSE failAt - 1
      cleared == [k \in Keys |->
                    IF \/ k = "refresh_token" /\ ~Truthy(tokens.refreshToken)
                       \/ k = "token_expiry" /\ ~Truthy(tokens.expiresIn)
                    THEN StNull ELSE st[k]]
  IN [store |-> ApplyWrites(cleared, ws, done), threw |-> failAt # 0]

\* storeTokens(tokens): the setItem calls one after the other; the failAt-th
\* one rejects (0: none does) and storeTokens rejects with its Error
StoreTokens(st, tokens, t, failAt) ==
  LET ws == StoreTokensWrites(tokens, t)
      done == IF failAt = 0 THEN Len(ws) ELSE failAt - 1
  IN [store |-> ApplyWrites(st, ws, done), threw |-> failAt # 0]

\* getTokens(): four reads; one that rejects rejects the Promise.all
GetTokens(st, fail) ==
  IF fail THEN [threw |-> TRUE, data |-> NoData]
  ELSE LET expiresAtStr == GetItem(st, "token_expiry")
           tokenType == GetItem(st, "token_type")
       IN [threw |-> FALSE,
           data |-> TokenData(GetItem(st, "access_token"), GetItem(st, "refresh_token"),
                              IF Truthy(expiresAtStr) THEN ParseInt(expiresAtStr.cs)
                              ELSE StNull,
                              IF Truthy(tokenType) THEN tokenType ELSE StUndefined)]

Expired(threw, bool, reads) == [threw |-> threw, bool |-> bool, reads |-> reads]

IsTokenExpiredMissingIsValid(st, t, expiresAt, fail) ==
  IF expiresAt.t \notin {"undefined", "null"}
  THEN Expired(FALSE, NowAtLeast(t, expiresAt), {})
  ELSE IF fail THEN Expired(TRUE, FALSE, {"token_expiry"})
  ELSE LET expiresAtStr == GetItem(st, "token_expiry")
       IN IF ~Truthy(expiresAtStr) THEN Expired(FALSE, FALSE, {"token_expiry"})
          ELSE Expired(FALSE, NowAtLeast(t, ParseInt(expiresAtStr.cs)), {"token_expiry"})

\* isTokenExpired(expiresAt?) at time t; fail: the read of token_expiry rejects
IsTokenExpired(st, t, expiresAt, fail) ==
  IF expiresAt.t \notin {"undefined", "null"}
  THEN Expired(FALSE, NowAtLeast(t, expiresAt), {})
  ELSE IF fail THEN Expired(TRUE, FALSE, {"token_expiry"})
  ELSE LET expiresAtStr == GetItem(st, "token_expiry")
       IN IF ~Truthy(expiresAtStr) THEN Expired(FALSE, TRUE, {"token_expiry"})
          ELSE Expired(FALSE, NowAtLeast(t, ParseInt(expiresAtStr.cs)), {"token_expiry"})

---------------------------------------------------------------------------
(* ExpoOAuthAdapter: isAuthenticated, getAccessToken, logout *)

\* OAuthCore.getAccessToken() and OAuthCore.isTokenExpired(): the core reads
\* the keys the storage adapter writes, through the storage adapter
CoreGetAccessToken(st, fail) ==
  [threw |-> fail, value |-> IF fail THEN StUndefined ELSE GetItem(st, "access_token")]

CoreIsTokenExpired(st, t, fail) == IsTokenExpired(st, t, StUndefined, fail)

\* Where a call of the core fails inside isAuthenticated / getAccessToken
CoreFailures == {"none", "token", "expiry"}

Logout(st, n, rejected) == ClearOAuthStorage(st, n, rejected)

Checked(bool, failed) == [bool |-> bool, failed |-> failed, threw |-> FALSE]

IsAuthenticatedTokenOnly(st, t, failAt) ==
  LET accessToken == CoreGetAccessToken(st, failAt = "token")
  IN IF accessToken.threw THEN Checked(FALSE, TRUE)
     ELSE Checked(Truthy(accessToken.value), FALSE)

\* isAuthenticated(): everything inside the try; the catch returns false
IsAuthenticated(st, t, failAt) ==
  LET accessToken == CoreGetAccessToken(st, failAt = "token")
  IN IF accessToken.threw THEN Checked(FALSE, TRUE)
     ELSE IF ~Truthy(accessToken.value) THEN Checked(FALSE, FALSE)
     ELSE LET isExpired == CoreIsTokenExpired(st, t, failAt = "expiry")
          IN IF isExpired.threw THEN Checked(FALSE, TRUE)
             ELSE Checked(~isExpired.bool, FALSE)

Got(st, value, failed, threw, loggedOut) ==
  [store |-> st, value |-> value, failed |-> failed, threw |-> threw,
   loggedOut |-> loggedOut]

GetAccessTokenKeepsExpired(st, t, failAt, rm) ==
  LET accessToken == CoreGetAccessToken(st, failAt = "token")
  IN IF accessToken.threw THEN Got(st, StNull, TRUE, FALSE, FALSE)
     ELSE IF ~Truthy(accessToken.value) THEN Got(st, StNull, FALSE, FALSE, FALSE)
     ELSE LET isExpired == CoreIsTokenExpired(st, t, failAt = "expiry")
          IN IF isExpired.threw THEN Got(st, StNull, TRUE, FALSE, FALSE)
             ELSE IF isExpired.bool THEN Got(st, StNull, FALSE, FALSE, FALSE)
             ELSE Got(st, accessToken.value, FALSE, FALSE, FALSE)

GetAccessTokenLogoutUncaught(st, t, failAt, rm) ==
  LET accessToken == CoreGetAccessToken(st, failAt = "token")
  IN IF accessToken.threw THEN Got(st, StNull, TRUE, FALSE, FALSE)
     ELSE IF ~Truthy(accessToken.value) THEN Got(st, StNull, FALSE, FALSE, FALSE)
     ELSE LET isExpired == CoreIsTokenExpired(st, t, failAt = "expiry")
          IN IF isExpired.threw THEN Got(st, StNull, TRUE, FALSE, FALSE)
             ELSE IF isExpired.bool
                  THEN LET out == Logout(st, rm.n, rm.rejected)
                       IN Got(out.store, IF out.threw THEN StUndefined ELSE StNull,
                              out.threw, out.threw, TRUE)
             ELSE Got(st, accessToken.value, FALSE, FALSE, FALSE)

\* getAccessToken(): everything inside the try, the awaited logout of an
\* expired token too; the catch returns null. rm: how the multiRemove of
\* that logout ends.
GetAccessToken(st, t, failAt, rm) ==
  LET accessToken == CoreGetAccessToken(st, failAt = "token")
  IN IF accessToken.threw THEN Got(st, StNull, TRUE, FALSE, FALSE)
     ELSE IF ~Truthy(accessToken.value) THEN Got(st, StNull, FALSE, FALSE, FALSE)
     ELSE LET isExpired == CoreIsTokenExpired(st, t, failAt = "expiry")
          IN IF isExpired.threw THEN Got(st, StNull, TRUE, FALSE, FALSE)
             ELSE IF isExpired.bool
                  THEN LET out == Logout(st, rm.n, rm.rejected)
                       IN Got(out.store, StNull, out.threw, FALSE, TRUE)
             ELSE Got(st, accessToken.value, FALSE, FALSE, FALSE)

---------------------------------------------------------------------------
(* ExpoPKCEAdapter. Strings are sequences of characters. Math.random() is  *)
(* a multiple of 1 / RandomScale below 1; the digest and the UUID come     *)
(* from expo-crypto, which resolves with any string or fails.              *)

VerifierLength == 128
RandomScale == 1000
MaxPattern == 2
MaxDigest == 3

Charset ==
  <<"A", "B", "C", "D", "E", "F", "G", "H", "I", "J", "K", "L", "M",
    "N", "O", "P", "Q", "R", "S", "T", "U", "V", "W", "X", "Y", "Z",
    "a", "b", "c", "d", "e", "f", "g", "h", "i", "j", "k", "l", "m",
    "n", "o", "p", "q", "r", "s", "t", "u", "v", "w", "x", "y", "z",
    "0", "1", "2", "3", "4", "5", "6", "7", "8", "9", "-", ".", "_", "~">>

\* String.charAt(i): the empty string outside the string
CharAt(chars, i) == IF i >= 0 /\ i < Len(chars) THEN <<chars[i + 1]>> ELSE <<>>

\* The results of Math.random() a call draws: the smallest, a middle one and
\* the largest below 1, in a sequence that repeats with period MaxPattern
RandomValues == {0, RandomScale \div 2, RandomScale - 1}
RandomPatterns == [1..MaxPattern -> RandomValues]

\* Mutant of RandomIndex: Math.round in place of Math.floor
RandomIndexRounds(r) == (2 * r * Len(Charset) + RandomScale) \div (2 * RandomScale)

\* Math.floor(Math.random() * charset.length)
RandomIndex(r) == (r * Len(Charset)) \div RandomScale

\* generateRandomString(length): iteration i appends charAt(...), which is
\* the empty string for an index outside the charset
GenerateRandomString(length, randoms) ==
  LET picked == [i \in 1..length |->
                   CharAt(Charset, RandomIndex(randoms[((i - 1) % Len(randoms)) + 1]))]
      added == SelectSeq(picked, LAMBDA c : c # <<>>)
  IN [i \in 1..Len(added) |-> added[i][1]]

\* How a call of expo-crypto ends
Fulfilled(v) == [rejects |-> FALSE, value |-> v, cause |-> "none"]
Rejected(c) == [rejects |-> TRUE, value |-> <<>>, cause |-> c]
Base64Chars == {"A", "+", "/", "="}
Base64Strings == UNION {[1..n -> Base64Chars] : n \in 0..MaxDigest}
DigestOutcomes == {Fulfilled(b) : b \in Base64Strings} \cup {Rejected("Crypto error")}
UuidOutcomes == {Fulfilled(<<"u">>), Fulfilled(<<"v">>), Rejected("Random source error")}

\* String.replace(/from/g, to)
RECURSIVE ReplaceAll(_, _, _)
ReplaceAll(cs, from, to) ==
  IF cs = <<>> THEN <<>>
  ELSE (IF Head(cs) = from THEN to ELSE <<Head(cs)>>) \o ReplaceAll(Tail(cs), from, to)

\* Mutant of Base64Url: the padding is kept
Base64UrlKeepsPadding(b64) == ReplaceAll(ReplaceAll(b64, "+", <<"-">>), "/", <<"_">>)

\* The three replace calls of sha256
Base64Url(b64) ==
  ReplaceAll(ReplaceAll(ReplaceAll(b64, "+", <<"-">>), "/", <<"_">>), "=", <<>>)

\* What a PKCE call settles with: one record for the four calls, the fields
\* a call does not return left empty
NoResult ==
  [codeChallenge |-> <<>>, codeChallengeMethod |-> "none", codeVerifier |-> <<>>,
   state |-> <<>>, authUrl |-> <<>>]
PkceSettled(threw, error, result) == [threw |-> threw, error |-> error, result |-> result]

\* sha256(plain) once digestStringAsync has settled
Sha256(digest) ==
  IF digest.rejects THEN PkceSettled(TRUE, digest.cause, NoResult)
  ELSE PkceSettled(FALSE, "none", [NoResult EXCEPT !.codeChallenge = Base64Url(digest.value)])

\* generateCodeChallenge() once the digest of its verifier has settled
GenerateCodeChallenge(codeVerifier, digest) ==
  IF Sha256(digest).threw THEN Sha256(digest)
  ELSE PkceSettled(FALSE, "none",
                   [NoResult EXCEPT !.codeChallenge = Sha256(digest).result.codeChallenge,
                                    !.codeChallengeMethod = "S256",
                                    !.codeVerifier = codeVerifier])

\* Mutant of GenerateState: a failing random source yields an empty state
GenerateStateDefaults(uuid) ==
  PkceSettled(FALSE, "none", [NoResult EXCEPT !.state = uuid.value])

\* generateState(): Crypto.randomUUID() returns or throws inside the async function
GenerateState(uuid) ==
  IF uuid.rejects THEN PkceSettled(TRUE, uuid.cause, NoResult)
  ELSE PkceSettled(FALSE, "none", [NoResult EXCEPT !.state = uuid.value])

\* generatePKCEParams() after the challenge: the core hands generateState to
\* the PKCE adapter and its outcome back
GeneratePKCEParams(challenge, uuid) ==
  IF GenerateState(uuid).threw THEN GenerateState(uuid)
  ELSE PkceSettled(FALSE, "none",
                   [challenge EXCEPT !.state = GenerateState(uuid).result.state])

\* generateAuthUrl() after the challenge: the PKCE entries of the query
GenerateAuthUrl(challenge, uuid) ==
  IF GenerateState(uuid).threw THEN GenerateState(uuid)
  ELSE PkceSettled(FALSE, "none",
                   [NoResult EXCEPT
                      !.authUrl = <<<<"state", GenerateState(uuid).result.state>>,
                                    <<"code_challenge", challenge.codeChallenge>>,
                                    <<"code_challenge_method", <<challenge.codeChallengeMethod>>>>>>,
                      !.codeVerifier = challenge.codeVerifier,
                      !.state = GenerateState(uuid).result.state])

\* pc: "idle", "digest" (digestStringAsync pending), "state" (challenge made,
\* generateState next), "done"
NoPkce ==
  [pc |-> "idle", op |-> "none", digestArg |-> <<>>, digest |-> Fulfilled(<<>>),
   uuid |-> Fulfilled(<<>>), challenge |-> NoResult, threw |-> FALSE, error |-> "none",
   result |-> NoResult]

---------------------------------------------------------------------------
(* ExpoHttpAdapter. A headers object is a function from its keys to their  *)
(* values; a body is the sequence of the pieces of its text.               *)

JsonType == "application/json"
FormType == "application/x-www-form-urlencoded"

DefaultHeaders == ("Content-Type" :> JsonType) @@ ("Accept" :> JsonType)

\* The headers argument; EmptyHeaders also stands for undefined, which
\* spreads to nothing
EmptyHeaders == [n \in {} |-> ""]
CallerHeaders ==
  {EmptyHeaders,
   "Content-Type" :> FormType,
   "Content-Type" :> "application/x-www-form-urlencoded; charset=utf-8",
   "content-type" :> FormType,
   ("Accept" :> "text/plain") @@ ("Authorization" :> "Bearer t")}

\* { ...a, ...b }
Spread(a, b) == [n \in DOMAIN a \cup DOMAIN b |-> IF n \in DOMAIN b THEN b[n] ELSE a[n]]

\* The data argument: get() passes undefined, post() an object
NotGiven == [given |-> FALSE, entries |-> <<>>]
Given(entries) == [given |-> TRUE, entries |-> entries]

\* formData.append(key, String(value)) for each entry that is neither
\* undefined nor null, then formData.toString()
RECURSIVE FormBody(_, _)
FormBody(entries, text) ==
  IF entries = <<>> THEN text
  ELSE LET e == Head(entries) IN
       FormBody(Tail(entries),
                IF e.v # JsUndefined /\ e.v # JsNull
                THEN text \o (IF text = <<>> THEN <<>> ELSE <<"&">>)
                          \o <<e.k, "=", StringOf(e.v)>>
                ELSE text)

\* JSON.stringify of one value, and of an object: a property whose value is
\* undefined is left out
JsonValue(v) ==
  CASE v.t = "string" -> <<"\"", v.s, "\"">>
    [] v.t = "number" -> <<ToString(v.n)>>
    [] OTHER -> <<"null">>
RECURSIVE JsonProperties(_, _)
JsonProperties(entries, text) ==
  IF entries = <<>> THEN text
  ELSE LET e == Head(entries) IN
       JsonProperties(Tail(entries),
                      IF e.v # JsUndefined
                      THEN text \o (IF text = <<>> THEN <<>> ELSE <<",">>)
                                \o <<"\"", e.k, "\":">> \o JsonValue(e.v)
                      ELSE text)
JsonStringify(entries) == <<"{">> \o JsonProperties(entries, <<>>) \o <<"}">>

NoBody == [kind |-> "none", text |-> <<>>]

\* Mutant of RequestBody: any Content-Type that starts as the form type selects the form body
RequestBodyFormByPrefix(method, data, requestHeaders) ==
  IF data.given /\ method = "POST"
  THEN IF requestHeaders["Content-Type"]
            \in {FormType, "application/x-www-form-urlencoded; charset=utf-8"}
       THEN [kind |-> "form", text |-> FormBody(data.entries, <<>>)]
       ELSE [kind |-> "json", text |-> JsonStringify(data.entries)]
  ELSE NoBody

\* requestOptions.body
RequestBody(method, data, requestHeaders) ==
  IF data.given /\ method = "POST"
  THEN IF requestHeaders["Content-Type"] = FormType
       THEN [kind |-> "form", text |-> FormBody(data.entries, <<>>)]
       ELSE [kind |-> "json", text |-> JsonStringify(data.entries)]
  ELSE NoBody

\* makeRequest up to fetch(url, requestOptions)
RequestOptions(method, data, headers) ==
  [method |-> method,
   headers |-> Spread(DefaultHeaders, headers),
   body |-> RequestBody(method, data, Spread(DefaultHeaders, headers))]

\* What fetch resolves with: a status and a content-type header, absent
\* (<<>>) or the parts of its value
Response(st, contentType) == [status |-> st, contentType |-> contentType]
NoResponse == Response(0, <<>>)
Responses ==
  {Response(st, ct) : st \in {200, 400},
                      ct \in {<<>>, <<JsonType, "; charset=utf-8">>, <<"text/html">>}}

\* contentType?.includes('application/json')
ReadsJson(contentType) == \E i \in 1..Len(contentType) : contentType[i] = JsonType

\* The promise of makeRequest: rejected with an Error or resolved with
\* { status, data, headers }
NoReply == [status |-> 0, data |-> "none", contentType |-> <<>>]
HttpSettled(threw, error, reply) == [threw |-> threw, error |-> error, reply |-> reply]
HttpFailed(cause) ==
  HttpSettled(TRUE, ErrorOf(<<"Network request failed: ">> \o CauseString(cause)), NoReply)

\* Mutant of BodySettled: a body that cannot be read yields the response without data
BodySettledKeepsResponse(response, read) ==
  HttpSettled(FALSE, NoError,
              [status |-> response.status,
               data |-> IF read.rejects THEN "none"
                        ELSE IF ReadsJson(response.contentType) THEN "json" ELSE "text",
               contentType |-> response.contentType])

\* makeRequest after fetch resolved, once response.json() / response.text() settled
BodySettled(response, read) ==
  IF read.rejects THEN HttpFailed(read)
  ELSE HttpSettled(FALSE, NoError,
                   [status |-> response.status,
                    data |-> IF ReadsJson(response.contentType) THEN "json" ELSE "text",
                    contentType |-> response.contentType])

\* pc: "idle", "fetch" (fetch pending), "body" (json() / text() pending), "done"
NoHttp ==
  [pc |-> "idle", method |-> "none", data |-> NotGiven, headers |-> EmptyHeaders,
   request |-> [method |-> "none", headers |-> EmptyHeaders, body |-> NoBody],
   fetchCalls |-> 0, fetched |-> Resolves, response |-> NoResponse, read |-> Resolves,
   threw |-> FALSE, error |-> NoError, reply |-> NoReply]

---------------------------------------------------------------------------
HookInit(h) ==
  /\ life = "new"
  /\ host = h
  /\ props = InitialProps
  /\ status = "processing"
  /\ message = ProcessingMessage
  /\ shown = [status |-> "processing", message |-> ProcessingMessage]
  /\ inflight = {}
  /\ autoCalls = 0
  /\ callerCalls = 0
  /\ onSuccessCalls = 0
  /\ timers = {}
  /\ ownTimer = 0
  /\ timerDeps = NoDeps
  /\ timersMade = 0
  /\ last = NoEvent

AdapterIdle ==
  /\ adPc = "idle"
  /\ adQuery = <<>>
  /\ adCoreOut = NoPayload
  /\ adResult = NoPayload

SessionIdle ==
  /\ store = EmptyStore
  /\ now = TimeAt(0)
  /\ call = NoCall
  /\ session = NoSession

\* A component that is no part of a specification: its variables stay at Unused
Unused == <<>>
HookUnused ==
  /\ life = Unused
  /\ host = Unused
  /\ props = Unused
  /\ status = Unused
  /\ message = Unused
  /\ shown = Unused
  /\ inflight = Unused
  /\ autoCalls = Unused
  /\ callerCalls = Unused
  /\ onSuccessCalls = Unused
  /\ timers = Unused
  /\ ownTimer = Unused
  /\ timerDeps = Unused
  /\ timersMade = Unused
  /\ last = Unused
AdapterUnused ==
  /\ adPc = Unused
  /\ adParams = Unused
  /\ adQuery = Unused
  /\ adCoreOut = Unused
  /\ adResult = Unused
SessionUnused ==
  /\ store = Unused
  /\ now = Unused
  /\ call = Unused
  /\ session = Unused
PkceUnused == pkce = Unused
HttpUnused == http = Unused
LogUnused == log = Unused
TasksUnused == tasks = Unused
ConfigUnused == oauthConfig = Unused

Init ==
  /\ HookInit("hook")
  /\ AdapterIdle
  /\ adParams = <<>>
  /\ SessionUnused
  /\ PkceUnused
  /\ HttpUnused
  /\ LogUnused
  /\ TasksUnused
  /\ ConfigUnused

ScreenInit ==
  /\ HookInit("screen")
  /\ AdapterIdle
  /\ adParams = <<>>
  /\ SessionUnused
  /\ PkceUnused
  /\ HttpUnused
  /\ LogUnused
  /\ TasksUnused
  /\ ConfigUnused

\* The first render and its effects
Mount ==
  /\ life = "new"
  /\ \E p \in PropsFor(host) :
       /\ life' = "mounted"
       /\ props' = p
       /\ shown' = [status |-> status, message |-> message]
       /\ IF AutoStarts(p)
          THEN /\ Begin("auto", p)
               /\ autoCalls' = autoCalls + 1
               /\ last' = Event("mount", NewAttempt("auto", p), TRUE, NoPayload, FALSE, <<>>, 2)
          ELSE /\ UNCHANGED <<status, message, inflight, autoCalls>>
               /\ last' = Event("mount", NoAttempt, TRUE, NoPayload, FALSE, <<>>, 0)
       /\ TimerEffect(status, p)
  /\ UNCHANGED <<outsideHook, host, callerCalls, onSuccessCalls>>

\* A re-render (the hook's own state change, or the parent's) and its effects
Render ==
  /\ life = "mounted"
  /\ \E p \in PropsFor(host), changed \in ChangedFor(host) :
       \* a caller of the hook keeps passing the callbacks it passed on mount
       /\ host = "hook" => (p.onSuccess = props.onSuccess /\ p.onError = props.onError)
       /\ props' = p
       /\ shown' = [status |-> status, message |-> message]
       /\ IF EffectDepsChanged(changed, props.autoStart, p.autoStart) /\ AutoStarts(p)
          THEN /\ Begin("auto", p)
               /\ autoCalls' = autoCalls + 1
               /\ last' = Event("render", NewAttempt("auto", p), TRUE, NoPayload, FALSE, <<>>, 2)
          ELSE /\ UNCHANGED <<status, message, inflight, autoCalls>>
               /\ last' = Event("render", NoAttempt, TRUE, NoPayload, FALSE, <<>>, 0)
       /\ TimerEffect(status, p)
  /\ UNCHANGED <<outsideHook, life, host, callerCalls, onSuccessCalls>>

\* The caller of the hook calls retry()
Retry ==
  /\ life = "mounted"
  /\ host = "hook"
  /\ Begin("retry", props)
  /\ callerCalls' = callerCalls + 1
  /\ last' = Event("retry", NewAttempt("retry", props), TRUE, NoPayload, FALSE, <<>>, 2)
  /\ UNCHANGED <<outsideHook, life, host, props, shown, autoCalls, onSuccessCalls, timers,
                 ownTimer, timerDeps, timersMade>>

\* The caller of the hook calls handleCallback()
ManualHandle ==
  /\ life = "mounted"
  /\ host = "hook"
  /\ Begin("manual", props)
  /\ callerCalls' = callerCalls + 1
  /\ last' = Event("manual", NewAttempt("manual", props), TRUE, NoPayload, FALSE, <<>>, 2)
  /\ UNCHANGED <<outsideHook, life, host, props, shown, autoCalls, onSuccessCalls, timers,
                 ownTimer, timerDeps, timersMade>>

\* Mutant of PressRetry: handleRetry calls onRetry and the hook's retry() as well
PressRetryCallsBoth ==
  /\ life = "mounted"
  /\ host = "screen"
  /\ shown.status = "error"
  /\ Begin("retry", props)
  /\ callerCalls' = callerCalls + 1
  /\ last' = Event("press", NewAttempt("retry", props), TRUE, NoPayload, FALSE,
                   IF props.onRetry THEN <<Call("onRetry", NoPayload)>> ELSE <<>>, 2)
  /\ UNCHANGED <<outsideHook, life, host, props, shown, autoCalls, onSuccessCalls, timers,
                 ownTimer, timerDeps, timersMade>>

\* The retry button of the screen, rendered only while the shown status is
\* 'error': handleRetry calls onRetry if given, the hook's retry() otherwise
PressRetry ==
  /\ life = "mounted"
  /\ host = "screen"
  /\ shown.status = "error"
  /\ IF props.onRetry
     THEN /\ last' = Event("press", NoAttempt, TRUE, NoPayload, FALSE,
                          <<Call("onRetry", NoPayload)>>, 0)
          /\ UNCHANGED <<status, message, inflight, callerCalls>>
     ELSE /\ Begin("retry", props)
          /\ callerCalls' = callerCalls + 1
          /\ last' = Event("press", NewAttempt("retry", props), TRUE, NoPayload, FALSE, <<>>, 2)
  /\ UNCHANGED <<outsideHook, life, host, props, shown, autoCalls, onSuccessCalls, timers,
                 ownTimer, timerDeps, timersMade>>

\* The delegated call of attempt a settles and handleCallback continues.
\* React drops a state update of an unmounted component; the hook issues it
\* all the same (last.sets counts the setStatus/setMessage calls).
Settle ==
  \E a \in inflight, out \in CoreOutcomes, cbThrows \in BOOLEAN :
    LET r == HandleSettled(a, AdapterReturn(out), cbThrows) IN
    /\ cbThrows => (out.kind = "resolve" /\ out.success /\ a.onSuccess # "none")
    /\ inflight' = inflight \ {a}
    /\ IF life = "mounted"
       THEN /\ status' = r.status
            /\ message' = r.message
       ELSE UNCHANGED <<status, message>>
    /\ onSuccessCalls' = onSuccessCalls + CountCalls(r.calls, "onSuccess")
    /\ last' = Event("settle", a, life = "mounted", out, cbThrows, r.calls, r.sets)
    /\ UNCHANGED <<outsideHook, life, host, props, shown, autoCalls, callerCalls, timers,
                   ownTimer, timerDeps, timersMade>>

\* The component unmounts: the effect cleanups run
Unmount ==
  /\ life = "mounted"
  /\ life' = "unmounted"
  /\ timers' = IF host = "screen" THEN Cleared(timers, ownTimer) ELSE timers
  /\ ownTimer' = 0
  /\ last' = Event("unmount", NoAttempt, FALSE, NoPayload, FALSE, <<>>, 0)
  /\ UNCHANGED <<outsideHook, host, props, status, message, shown, inflight, autoCalls, callerCalls,
                 onSuccessCalls, timerDeps, timersMade>>

\* A pending timer fires: its callback is empty
TimerFires ==
  \E t \in timers :
    /\ timers' = timers \ {t}
    /\ last' = Event("timer", NoAttempt, life = "mounted", NoPayload, FALSE, <<>>, 0)
    /\ UNCHANGED <<outsideHook, life, host, props, status, message, shown, inflight, autoCalls,
                   callerCalls, onSuccessCalls, ownTimer, timerDeps, timersMade>>

---------------------------------------------------------------------------
(* The hook under a caller of its own (renderHook, a custom screen) *)
Next ==
  \/ Mount
  \/ Render
  \/ Retry
  \/ ManualHandle
  \/ Settle
  \/ Unmount

Spec == Init /\ [][Next]_vars

(* The hook under OAuthCallbackScreen *)
ScreenNext ==
  \/ Mount
  \/ Render
  \/ PressRetry
  \/ Settle
  \/ Unmount
  \/ TimerFires

ScreenSpec == ScreenInit /\ [][ScreenNext]_vars

(* ExpoOAuthAdapter.handleCallback on its own, for every params object *)
AdapterInit ==
  /\ HookInit("hook")
  /\ AdapterIdle
  /\ adParams \in ParamObjects
  /\ SessionUnused
  /\ PkceUnused
  /\ HttpUnused
  /\ LogUnused
  /\ TasksUnused
  /\ ConfigUnused

\* handleCallback(params) up to its return: the query is built and the core called
AdapterHandleCallback ==
  /\ adPc = "idle"
  /\ adQuery' = ToUrlParams(adParams, <<>>)
  /\ adPc' = "waiting"
  /\ UNCHANGED <<outsideAdapter, adParams, adCoreOut, adResult>>

\* The core's promise settles, and with it the promise of handleCallback
AdapterCoreSettles ==
  /\ adPc = "waiting"
  /\ \E out \in CoreOutcomes :
       /\ adCoreOut' = out
       /\ adResult' = AdapterReturn(out)
  /\ adPc' = "done"
  /\ UNCHANGED <<outsideAdapter, adParams, adQuery>>

AdapterNext ==
  \/ AdapterHandleCallback
  \/ AdapterCoreSettles

AdapterSpec == AdapterInit /\ [][AdapterNext]_vars

---------------------------------------------------------------------------
(* The token store under a caller that issues one call at a time: each     *)
(* action is one call from its start to the settling of its promise.       *)

SessionInit ==
  /\ HookUnused
  /\ AdapterUnused
  /\ SessionIdle
  /\ PkceUnused
  /\ HttpUnused
  /\ LogUnused
  /\ TasksUnused
  /\ ConfigUnused

\* The core's own writes during a flow: setItem(key, value)
CallSetItem ==
  /\ \E k \in {"oauth_state"}, fail \in BOOLEAN :
       /\ store' = IF fail THEN store ELSE ApplyWrites(store, <<Write(k, <<"s">>)>>, 1)
       /\ call' = [NoCall EXCEPT !.op = "setItem", !.threw = fail, !.failed = fail]
  /\ UNCHANGED <<outsideSession, now, session>>

CallStoreTokens ==
  /\ \E tokens \in TokenInputs :
       \E failAt \in 0..Len(StoreTokensWrites(tokens, now)) :
         \E out \in {StoreTokens(store, tokens, now, failAt)} :
            /\ store' = out.store
            /\ call' = [NoCall EXCEPT !.op = "storeTokens", !.tokens = tokens,
                                      !.threw = out.threw, !.failed = out.threw]
            /\ session' =
                 IF ~out.threw /\ tokens.expiresIn.t = "number" /\ tokens.expiresIn.n > 0
                 THEN [state |-> "stored", token |-> tokens.accessToken,
                       until |-> now + tokens.expiresIn.n * MsPerSecond]
                 ELSE NoSession
  /\ UNCHANGED <<outsideSession, now>>

CallGetTokens ==
  /\ \E fail \in BOOLEAN :
       \E out \in {GetTokens(store, fail)} :
          call' = [NoCall EXCEPT !.op = "getTokens", !.threw = out.threw,
                                 !.failed = out.threw, !.data = out.data]
  /\ UNCHANGED <<outsideSession, store, now, session>>

CallIsTokenExpired ==
  /\ \E expiresAt \in ExpiresAtInputs, fail \in BOOLEAN :
       \E out \in {IsTokenExpired(store, now, expiresAt, fail)} :
          call' = [NoCall EXCEPT !.op = "isTokenExpired", !.expiresAt = expiresAt,
                                 !.threw = out.threw, !.failed = out.threw,
                                 !.bool = out.bool, !.reads = out.reads]
  /\ UNCHANGED <<outsideSession, store, now, session>>

\* storageAdapter.clearOAuthStorage(), called directly or as adapter.logout()
CallLogout ==
  /\ \E op \in {"logout", "clearOAuthStorage"}, rm \in RemoveOutcomes :
       \E out \in {IF op = "logout" THEN Logout(store, rm.n, rm.rejected)
                  ELSE ClearOAuthStorage(store, rm.n, rm.rejected)} :
          /\ store' = out.store
          /\ call' = [NoCall EXCEPT !.op = op, !.threw = out.threw,
                                    !.failed = rm.rejected,
                                    !.removed = RemovedKeys(store, out.store)]
          /\ session' = IF out.threw \/ rm.rejected THEN NoSession
                        ELSE [NoSession EXCEPT !.state = "cleared"]
  /\ UNCHANGED <<outsideSession, now>>

CallIsAuthenticated ==
  /\ \E failAt \in CoreFailures :
       \E out \in {IsAuthenticated(store, now, failAt)} :
          call' = [NoCall EXCEPT !.op = "isAuthenticated", !.threw = out.threw,
                                 !.failed = out.failed, !.bool = out.bool]
  /\ UNCHANGED <<outsideSession, store, now, session>>

CallGetAccessToken ==
  /\ \E failAt \in CoreFailures, rm \in RemoveOutcomes :
       \E out \in {GetAccessToken(store, now, failAt, rm)} :
          /\ store' = out.store
          /\ call' = [NoCall EXCEPT !.op = "getAccessToken", !.threw = out.threw,
                                    !.failed = out.failed, !.value = out.value,
                                    !.removed = RemovedKeys(store, out.store)]
          /\ session' = IF ~out.loggedOut THEN session
                        ELSE IF out.failed THEN NoSession
                        ELSE [NoSession EXCEPT !.state = "cleared"]
  /\ UNCHANGED <<outsideSession, now>>

\* Time passes between two calls
Tick ==
  /\ now < TimeAt(MaxTicks)
  /\ now' = now + TickMs
  /\ call' = NoCall
  /\ UNCHANGED <<outsideSession, store, session>>

SessionNext ==
  \/ CallSetItem
  \/ CallStoreTokens
  \/ CallGetTokens
  \/ CallIsTokenExpired
  \/ CallLogout
  \/ CallIsAuthenticated
  \/ CallGetAccessToken
  \/ Tick

SessionSpec == SessionInit /\ [][SessionNext]_vars

---------------------------------------------------------------------------
(* ExpoStorageAdapter's four wrappers on their own, one call at a time *)

StorageKeys == {"oauth_state", "app_theme"}
StorageValues == {<<"s">>, <<>>}
StorageKeyLists == {<<>>, <<"oauth_state">>, <<"oauth_state", "app_theme">>}

StorageInit ==
  /\ HookUnused
  /\ AdapterUnused
  /\ SessionIdle
  /\ PkceUnused
  /\ HttpUnused
  /\ LogUnused
  /\ TasksUnused
  /\ ConfigUnused

DoSetItem ==
  /\ \E k \in StorageKeys, cs \in StorageValues, outcome \in {Resolves} \cup Rejections :
       \E out \in {TrySetItem(store, k, cs, outcome)} :
         /\ store' = out.store
         /\ call' = [NoCall EXCEPT !.op = "setItem", !.keys = <<k>>, !.cause = outcome,
                                   !.failed = outcome.rejects, !.threw = out.threw,
                                   !.error = out.error, !.value = out.value]
  /\ UNCHANGED <<outsideSession, now, session>>

DoGetItem ==
  /\ \E k \in StorageKeys, outcome \in {Resolves} \cup Rejections :
       \E out \in {TryGetItem(store, k, outcome)} :
         /\ store' = out.store
         /\ call' = [NoCall EXCEPT !.op = "getItem", !.keys = <<k>>, !.cause = outcome,
                                   !.failed = outcome.rejects, !.threw = out.threw,
                                   !.error = out.error, !.value = out.value,
                                   !.reads = {k}]
  /\ UNCHANGED <<outsideSession, now, session>>

DoRemoveItem ==
  /\ \E k \in StorageKeys, outcome \in {Resolves} \cup Rejections :
       \E out \in {TryRemoveItem(store, k, outcome)} :
         /\ store' = out.store
         /\ call' = [NoCall EXCEPT !.op = "removeItem", !.keys = <<k>>, !.cause = outcome,
                                   !.failed = outcome.rejects, !.threw = out.threw,
                                   !.error = out.error, !.value = out.value,
                                   !.removed = RemovedKeys(store, out.store)]
  /\ UNCHANGED <<outsideSession, now, session>>

DoRemoveItems ==
  /\ \E keys \in StorageKeyLists, outcome \in {Resolves} \cup Rejections :
       \E n \in 0..Len(keys) :
         \E out \in {TryRemoveItems(store, keys, n, outcome)} :
           /\ store' = out.store
           /\ call' = [NoCall EXCEPT !.op = "removeItems", !.keys = keys,
                                     !.cause = outcome, !.failed = outcome.rejects,
                                     !.threw = out.threw, !.error = out.error,
                                     !.value = out.value,
                                     !.removed = RemovedKeys(store, out.store)]
  /\ UNCHANGED <<outsideSession, now, session>>

StorageNext ==
  \/ DoSetItem
  \/ DoGetItem
  \/ DoRemoveItem
  \/ DoRemoveItems

StorageSpec == StorageInit /\ [][StorageNext]_vars

---------------------------------------------------------------------------
(* The PKCE calls: generateCodeChallenge and generateState of the adapter, *)
(* generatePKCEParams of ExpoOAuthAdapter, generateAuthUrl of              *)
(* useOAuthConfig. One call at a time, split at its awaits.                *)

PkceInit ==
  /\ HookUnused
  /\ AdapterUnused
  /\ SessionUnused
  /\ pkce = NoPkce
  /\ HttpUnused
  /\ LogUnused
  /\ TasksUnused
  /\ ConfigUnused

\* A call up to digestStringAsync: the verifier is generated and passed on
PkceBegin ==
  /\ pkce.pc = "idle"
  /\ \E op \in {"generateCodeChallenge", "generatePKCEParams", "generateAuthUrl"},
        randoms \in RandomPatterns :
       pkce' = [NoPkce EXCEPT !.pc = "digest", !.op = op,
                              !.digestArg = GenerateRandomString(VerifierLength, randoms)]
  /\ UNCHANGED outsidePkce

\* digestStringAsync settles: generateCodeChallenge settles, the other two go on
PkceDigestSettles ==
  /\ pkce.pc = "digest"
  /\ \E digest \in DigestOutcomes :
       \E out \in {GenerateCodeChallenge(pkce.digestArg, digest)} :
         pkce' = IF out.threw \/ pkce.op = "generateCodeChallenge"
                 THEN [pkce EXCEPT !.pc = "done", !.digest = digest, !.threw = out.threw,
                                   !.error = out.error, !.result = out.result]
                 ELSE [pkce EXCEPT !.pc = "state", !.digest = digest,
                                   !.challenge = out.result]
  /\ UNCHANGED outsidePkce

\* generateState inside generatePKCEParams / generateAuthUrl
PkceStateSettles ==
  /\ pkce.pc = "state"
  /\ \E uuid \in UuidOutcomes :
       \E out \in {IF pkce.op = "generatePKCEParams"
                   THEN GeneratePKCEParams(pkce.challenge, uuid)
                   ELSE GenerateAuthUrl(pkce.challenge, uuid)} :
         pkce' = [pkce EXCEPT !.pc = "done", !.uuid = uuid, !.threw = out.threw,
                              !.error = out.error, !.result = out.result]
  /\ UNCHANGED outsidePkce

\* generateState() called on its own
CallGenerateState ==
  /\ pkce.pc = "idle"
  /\ \E uuid \in UuidOutcomes :
       \E out \in {GenerateState(uuid)} :
         pkce' = [NoPkce EXCEPT !.pc = "done", !.op = "generateState", !.uuid = uuid,
                                !.threw = out.threw, !.error = out.error,
                                !.result = out.result]
  /\ UNCHANGED outsidePkce

\* The caller has the outcome; the next call can start
PkceAwaited ==
  /\ pkce.pc = "done"
  /\ pkce' = NoPkce
  /\ UNCHANGED outsidePkce

PkceNext ==
  \/ PkceBegin
  \/ PkceDigestSettles
  \/ PkceStateSettles
  \/ CallGenerateState
  \/ PkceAwaited

PkceSpec == PkceInit /\ [][PkceNext]_vars

---------------------------------------------------------------------------
(* ExpoHttpAdapter.post / get: one request at a time, split at its awaits *)

HttpInit ==
  /\ HookUnused
  /\ AdapterUnused
  /\ SessionUnused
  /\ PkceUnused
  /\ http = NoHttp
  /\ LogUnused
  /\ TasksUnused
  /\ ConfigUnused

\* post(url, data, headers) / get(url, headers) up to the call of fetch
HttpRequest ==
  /\ http.pc = "idle"
  /\ \E method \in {"GET", "POST"}, headers \in CallerHeaders, entries \in ParamObjects :
       /\ method = "GET" => entries = <<>>
       /\ \E data \in {IF method = "POST" THEN Given(entries) ELSE NotGiven} :
            http' = [NoHttp EXCEPT !.pc = "fetch", !.method = method, !.data = data,
                                   !.headers = headers,
                                   !.request = RequestOptions(method, data, headers),
                                   !.fetchCalls = 1]
  /\ UNCHANGED outsideHttp

\* fetch settles: a rejection ends the request, a response is read next
HttpFetchSettles ==
  /\ http.pc = "fetch"
  /\ \/ \E cause \in Rejections :
          \E out \in {HttpFailed(cause)} :
            http' = [http EXCEPT !.pc = "done", !.fetched = cause, !.threw = out.threw,
                                 !.error = out.error, !.reply = out.reply]
     \/ \E response \in Responses :
          http' = [http EXCEPT !.pc = "body", !.response = response]
  /\ UNCHANGED outsideHttp

\* response.json() / response.text() settles
HttpBodySettles ==
  /\ http.pc = "body"
  /\ \E read \in {Resolves} \cup Rejections :
       \E out \in {BodySettled(http.response, read)} :
         http' = [http EXCEPT !.pc = "done", !.read = read, !.threw = out.threw,
                              !.error = out.error, !.reply = out.reply]
  /\ UNCHANGED outsideHttp

\* The caller has the outcome; the next request can start
HttpAwaited ==
  /\ http.pc = "done"
  /\ http' = NoHttp
  /\ UNCHANGED outsideHttp

HttpNext ==
  \/ HttpRequest
  \/ HttpFetchSettles
  \/ HttpBodySettles
  \/ HttpAwaited

HttpSpec == HttpInit /\ [][HttpNext]_vars

---------------------------------------------------------------------------
(* One callback attempt at a time, the hook and the adapter together: a    *)
(* hook mounted with autoStart false whose caller calls handleCallback()   *)
(* again once the attempt before has ended. log holds the events of the    *)
(* attempt in the order the code produces them.                            *)

\* setStatus('processing'); setMessage(...)
HookBeginEvents == <<"processing">>

\* adapter.handleCallback(params): the query is built, then the core is called
AdapterCallEvents == <<"normalized", "coreCalled">>

\* Mutant of BeginEvents: the adapter is called before the status is set
BeginEventsDelegatesFirst == AdapterCallEvents \o HookBeginEvents

\* handleCallback up to its await
BeginEvents == HookBeginEvents \o AdapterCallEvents

\* The catch block: setStatus('error'), setMessage, then options.onError
CatchEvents(a) == <<"error">> \o (IF a.onError THEN <<"onError">> ELSE <<>>)

\* handleCallback after its await
ContinuationEvents(a, out, cbThrows) ==
  IF out.kind = "resolve" /\ out.success
  THEN <<"success">>
         \o (IF a.onSuccess # "none" THEN <<"onSuccess">> ELSE <<>>)
         \o (IF a.onSuccess # "none" /\ cbThrows THEN CatchEvents(a) ELSE <<>>)
  ELSE CatchEvents(a)

AttemptParams == {es \in ParamObjects : Len(es) <= 1}

AttemptInit ==
  /\ life = "mounted"
  /\ host = "hook"
  /\ props \in {p \in HookProps : ~p.autoStart}
  /\ status = "processing"
  /\ message = ProcessingMessage
  /\ shown = [status |-> "processing", message |-> ProcessingMessage]
  /\ inflight = {}
  /\ autoCalls = 0
  /\ callerCalls = 0
  /\ onSuccessCalls = 0
  /\ timers = {}
  /\ ownTimer = 0
  /\ timerDeps = NoDeps
  /\ timersMade = 0
  /\ last = NoEvent
  /\ AdapterIdle
  /\ adParams \in AttemptParams
  /\ SessionUnused
  /\ PkceUnused
  /\ HttpUnused
  /\ log = <<>>
  /\ TasksUnused
  /\ ConfigUnused

\* handleCallback() up to its await: status and message are set, the adapter
\* builds the query and calls the core
AttemptBegin ==
  /\ adPc = "idle"
  /\ inflight = {}
  /\ Begin("manual", props)
  /\ callerCalls' = callerCalls + 1
  /\ adQuery' = ToUrlParams(adParams, <<>>)
  /\ adPc' = "waiting"
  /\ adCoreOut' = NoPayload
  /\ adResult' = NoPayload
  /\ log' = BeginEvents
  /\ last' = Event("manual", NewAttempt("manual", props), TRUE, NoPayload, FALSE, <<>>, 2)
  /\ UNCHANGED <<sessionVars, pkce, http, tasks, oauthConfig, life, host, props, shown, autoCalls, onSuccessCalls,
                 timers, ownTimer, timerDeps, timersMade, adParams>>

\* The core's promise settles, and with it the promise of adapter.handleCallback
AttemptCoreSettles ==
  /\ adPc = "waiting"
  /\ \E out \in CoreOutcomes :
       /\ adCoreOut' = out
       /\ adResult' = AdapterReturn(out)
  /\ adPc' = "done"
  /\ log' = Append(log, "coreSettled")
  /\ UNCHANGED <<hookVars, sessionVars, pkce, http, tasks, oauthConfig, adParams, adQuery>>

\* handleCallback resumes after its await
AttemptContinues ==
  /\ adPc = "done"
  /\ \E a \in inflight, cbThrows \in BOOLEAN :
       \E r \in {HandleSettled(a, adResult, cbThrows)} :
         /\ cbThrows => (adResult.kind = "resolve" /\ adResult.success /\ a.onSuccess # "none")
         /\ inflight' = inflight \ {a}
         /\ status' = r.status
         /\ message' = r.message
         /\ onSuccessCalls' = onSuccessCalls + CountCalls(r.calls, "onSuccess")
         /\ log' = log \o ContinuationEvents(a, adResult, cbThrows)
         /\ last' = Event("settle", a, TRUE, adCoreOut, cbThrows, r.calls, r.sets)
  /\ adPc' = "idle"
  /\ UNCHANGED <<sessionVars, pkce, http, tasks, oauthConfig, life, host, props, shown, autoCalls, callerCalls,
                 timers, ownTimer, timerDeps, timersMade, adParams, adQuery, adCoreOut,
                 adResult>>

AttemptNext ==
  \/ AttemptBegin
  \/ AttemptCoreSettles
  \/ AttemptContinues

AttemptSpec == AttemptInit /\ [][AttemptNext]_vars

---------------------------------------------------------------------------
(* Claims *)

\* C1: with auto-start and no retry() call, onSuccess is invoked at most once
\* and a status of 'success' stays 'success' while the screen is mounted,
\* whatever re-renders happen.
C1_SuccessOnceAndStays ==
  [][(life' = "mounted" /\ callerCalls' = 0) =>
       (onSuccessCalls' <= 1 /\ (status = "success" => status' = "success"))]_vars

\* C2: the delegated handling is invoked once for the auto-start on mount
\* plus once per retry()/handleCallback() call of the caller, and never more.
C2_NoSelfReinvocation == life # "new" => handleCalls = 1 + callerCalls

\* C3: when the delegated call rejects with an Error e, the attempt ends with
\* status 'error' and message e.message, onError is invoked once with that
\* same Error (when given) and onSuccess is not invoked.
C3_RejectionEndsInError ==
  (last.ev = "settle" /\ last.out.kind = "reject" /\ last.out.isError) =>
    /\ last.mounted => (status = "error" /\ message = last.out.message)
    /\ last.calls = IF last.attempt.onError THEN <<Call("onError", last.out)>> ELSE <<>>

C3_Witness ==
  /\ last.ev = "settle" /\ last.out.kind = "reject" /\ last.out.isError
  /\ last.mounted /\ last.attempt.onError
  /\ status = "error" /\ message = "Network error"

\* C4: when the delegated call resolves with success false, the attempt ends
\* with status 'error' and message result.error, or 'OAuth authentication
\* failed' when result.error is absent or empty; onError is invoked once with
\* an Error of that message (when given) and onSuccess is not invoked.
C4_FailureResultEndsInError ==
  (last.ev = "settle" /\ last.out.kind = "resolve" /\ ~last.out.success) =>
    LET text == IF last.out.error = JsUndefined \/ last.out.error = JsString("")
                THEN "OAuth authentication failed" ELSE last.out.error.s
    IN /\ last.mounted => (status = "error" /\ message = text)
       /\ last.calls =
            IF last.attempt.onError
            THEN <<Call("onError", Payload("reject", FALSE, JsUndefined, TRUE, text, "hook"))>>
            ELSE <<>>

C4_Witness ==
  /\ last.ev = "settle" /\ last.out.kind = "resolve" /\ ~last.out.success
  /\ last.out.error = JsString("")
  /\ last.mounted /\ last.attempt.onError
  /\ status = "error" /\ message = "OAuth authentication failed"

C6_AtMostOneInFlight == Cardinality(inflight) <= 1

\* C7: when the delegated call settles after the component unmounted, the
\* hook issues no status or message update.
C7_NoUpdateAfterUnmount ==
  (last.ev = "settle" /\ ~last.mounted) => last.sets = 0

\* C8: with autoRedirect enabled, the timer that fires redirectDelay after
\* the success performs a caller-visible action while the screen is mounted.
C8_RedirectAfterDelay ==
  (last.ev = "timer" /\ last.mounted) => last.calls # <<>>

\* C9: at most one auto-redirect timer is pending; a timer is pending only
\* while the screen is mounted, shows status 'success' and the effect's
\* dependencies (status, autoRedirect, redirectDelay, onSuccess) are those
\* the timer was started with; no timer fires after the unmount.
C9_TimerScoped ==
  /\ Cardinality(timers) <= 1
  /\ timers # {} =>
       /\ life = "mounted"
       /\ shown.status = "success"
       /\ props.autoRedirect /\ props.onSuccess # "none"
       /\ timerDeps = [status |-> shown.status, autoRedirect |-> props.autoRedirect,
                       redirectDelay |-> props.redirectDelay, onSuccess |-> props.onSuccess]
       /\ \A t \in timers : t.id = ownTimer /\ t.delay = props.redirectDelay
  /\ last.ev = "timer" => last.mounted

\* a re-render with changed dependencies has replaced the first timer
C9_Witness ==
  /\ last.ev = "render" /\ timersMade = 2
  /\ timers = {[id |-> 2, delay |-> props.redirectDelay]}

\* C10: the query handed to the core has key k exactly when params[k] is
\* neither null nor undefined, once and with value String(params[k]), and
\* the promise of handleCallback settles with what the core's settled with.
C10_QueryIsFilteredParams ==
  adPc # "idle" =>
    /\ \A k \in ParamKeys :
         (\E j \in DOMAIN adQuery : adQuery[j].k = k)
           <=> (\E i \in DOMAIN adParams :
                  adParams[i].k = k /\ adParams[i].v.t \notin {"null", "undefined"})
    /\ \A i \in DOMAIN adParams, j \in DOMAIN adQuery :
         adParams[i].k = adQuery[j].k => adQuery[j].s = StringOf(adParams[i].v)
    /\ \A i, j \in DOMAIN adQuery : i # j => adQuery[i].k # adQuery[j].k
    /\ \A j \in DOMAIN adQuery : adQuery[j].k \in ParamKeys
    /\ adPc = "done" => adResult = adCoreOut

\* {code: 'X', state: null} gave code=X and no state key
C10_Witness ==
  /\ adPc = "done"
  /\ adParams = <<Entry("code", JsString("X")), Entry("state", JsNull)>>
  /\ adQuery = <<Pair("code", "X")>>

---------------------------------------------------------------------------
(* Claims about the token store *)

\* The times a token can be stored to expire at, and what the store says
\* about the expiry: token_expiry holds the decimal string of the time x
ExpiryTimes == {TimeAt(i) + d * MsPerSecond : i \in 0..MaxTicks, d \in {0 - 1, 0, 1}}
ExpiryStoredIs(st, x) == st["token_expiry"] = StString(NumberToString(x))
TokenStored(st) == st["access_token"] # StNull
NotExpired(st, t) == \E x \in ExpiryTimes : ExpiryStoredIs(st, x) /\ t < x
NoReservedKey(st) == \A k \in ReservedKeys : st[k] = StNull

\* C11: getAccessToken(), when no storage or core call fails: with a stored
\* token that is expired it removes all nine reserved keys and returns null;
\* with a stored token that is not expired it returns the token and leaves the
\* store unchanged; with no token it returns null and leaves the store unchanged.
C11_GetAccessToken ==
  [][(call'.op = "getAccessToken" /\ ~call'.failed) =>
       IF TokenStored(store) /\ ~NotExpired(store, now)
       THEN call'.value = StNull /\ NoReservedKey(store')
       ELSE IF TokenStored(store)
       THEN call'.value = store["access_token"] /\ store' = store
       ELSE call'.value = StNull /\ store' = store]_vars

\* getAccessToken found an expired token and removed it with the other keys
C11_Witness ==
  /\ call.op = "getAccessToken"
  /\ ~call.failed
  /\ {"access_token", "token_expiry", "token_type", "oauth_state"} \subseteq call.removed
  /\ call.value = StNull

\* C12: isAuthenticated() never modifies the store and, when no core call
\* fails, returns true exactly when a token is stored and is not expired.
C12_IsAuthenticated ==
  [][call'.op = "isAuthenticated" =>
       /\ store' = store
       /\ ~call'.failed =>
            (call'.bool <=> (TokenStored(store) /\ NotExpired(store, now)))]_vars

\* isAuthenticated returned false for an expired token and left it in place
C12_Witness ==
  /\ call.op = "isAuthenticated"
  /\ ~call.failed
  /\ ~call.bool
  /\ TokenStored(store)
  /\ store["token_expiry"] # StNull

\* C13: isAuthenticated() and getAccessToken() never reject; when a core or
\* storage call inside them fails, the logout of an expired token included,
\* they resolve with false, respectively null.
C13_NeverRejects ==
  /\ call.op = "isAuthenticated" => ~call.threw /\ (call.failed => ~call.bool)
  /\ call.op = "getAccessToken" => ~call.threw /\ (call.failed => call.value = StNull)

\* getAccessToken's logout of an expired token failed after removing one key
C13_Witness ==
  /\ call.op = "getAccessToken"
  /\ call.failed
  /\ call.removed = {"access_token"}
  /\ ~call.threw

\* C14: after storeTokens with a positive expiresIn resolved and until the
\* expiry or a logout, isAuthenticated() is true and getAccessToken() returns
\* the stored token (when no core call fails); after logout() resolved and
\* until tokens are stored again, isAuthenticated() is false and
\* getAccessToken() is null.
C14_SessionLifecycle ==
  /\ (session.state = "stored" /\ now < session.until /\ ~call.failed) =>
       /\ call.op = "isAuthenticated" => call.bool
       /\ call.op = "getAccessToken" => call.value = session.token
  /\ session.state = "cleared" =>
       /\ call.op = "isAuthenticated" => ~call.bool
       /\ call.op = "getAccessToken" => call.value = StNull

\* Half a second after storeTokens with expiresIn = 1, getAccessToken
\* returned the token
C14_Witness ==
  /\ session.state = "stored"
  /\ TimeAt(0) < now
  /\ now < session.until
  /\ call.op = "getAccessToken"
  /\ call.value = session.token

\* Logged out, then asked
C14_WitnessCleared ==
  /\ session.state = "cleared"
  /\ call.op = "isAuthenticated"
  /\ ~call.bool

\* C15: isTokenExpired() without an argument is true when no token_expiry is
\* stored, true when the stored expiry is earlier than now, false when it is
\* later; with a non-null argument it compares the argument with now and reads
\* nothing from the store.
C15_IsTokenExpired ==
  (call.op = "isTokenExpired" /\ ~call.threw) =>
    IF call.expiresAt.t = "number"
    THEN /\ call.reads = {}
         /\ call.expiresAt.n < now => call.bool
         /\ call.expiresAt.n > now => ~call.bool
    ELSE /\ store["token_expiry"] = StNull => call.bool
         /\ \A x \in ExpiryTimes : ExpiryStoredIs(store, x) =>
              /\ x < now => call.bool
              /\ x > now => ~call.bool

\* No expiry stored: expired
C15_Witness ==
  /\ call.op = "isTokenExpired"
  /\ call.expiresAt = StUndefined
  /\ ~call.threw
  /\ store["token_expiry"] = StNull
  /\ TokenStored(store)
  /\ call.bool

\* C16: storeTokens that resolved stored token_expiry = now + expiresIn*1000
\* as a decimal string for every expiresIn given, 0 and negative values
\* included, so that with expiresIn <= 0 isTokenExpired() is true right after.
C16_ExpiryAlwaysStored ==
  (call.op = "storeTokens" /\ ~call.threw /\ call.tokens.expiresIn.t = "number") =>
    /\ ExpiryStoredIs(store, now + call.tokens.expiresIn.n * MsPerSecond)
    /\ call.tokens.expiresIn.n <= 0 => IsTokenExpired(store, now, StUndefined, FALSE).bool

\* C17: storeTokens without refreshToken leaves refresh_token as it was,
\* without expiresIn leaves token_expiry as it was, and never touches a key
\* other than the four token keys.
C17_StoreTokensFrame ==
  [][call'.op = "storeTokens" =>
       /\ call'.tokens.refreshToken = StUndefined =>
            store'["refresh_token"] = store["refresh_token"]
       /\ call'.tokens.expiresIn = StUndefined =>
            store'["token_expiry"] = store["token_expiry"]
       /\ \A k \in Keys \ TokenKeys : store'[k] = store[k]]_vars

\* storeTokens({accessToken}) over a store that holds a refresh token, an
\* expiry and a key of the flow
C17_Witness ==
  /\ call.op = "storeTokens"
  /\ ~call.threw
  /\ call.tokens.refreshToken = StUndefined
  /\ call.tokens.expiresIn = StUndefined
  /\ store["refresh_token"] # StNull
  /\ store["token_expiry"] # StNull
  /\ store["oauth_state"] # StNull

\* C18: from a store with none of the token keys, storeTokens(t) that
\* resolved is followed by a getTokens() that returns t.accessToken,
\* t.refreshToken (null if not given), now + expiresIn*1000 as a number (null
\* if not given) and 'Bearer'.
C18_RoundTrip ==
  [][(call'.op = "storeTokens" /\ ~call'.threw /\ \A k \in TokenKeys : store[k] = StNull) =>
       GetTokens(store', FALSE).data =
         TokenData(call'.tokens.accessToken,
                   IF call'.tokens.refreshToken = StUndefined THEN StNull
                   ELSE call'.tokens.refreshToken,
                   IF call'.tokens.expiresIn = StUndefined THEN StNull
                   ELSE StNumber(now + call'.tokens.expiresIn.n * MsPerSecond),
                   StString(BearerChars))]_vars

\* C19: after clearOAuthStorage() resolved none of the nine reserved keys is
\* present and every other key keeps its value.
C19_ClearsExactlyReserved ==
  [][(call'.op \in {"clearOAuthStorage", "logout"} /\ ~call'.threw) =>
       /\ NoReservedKey(store')
       /\ \A k \in Keys \ ReservedKeys : store'[k] = store[k]]_vars

\* clearOAuthStorage removed token keys and a key of the flow, and the
\* application's key is still there
C19_Witness ==
  /\ call.op = "clearOAuthStorage"
  /\ ~call.threw
  /\ {"access_token", "refresh_token", "token_expiry", "token_type", "oauth_state"}
       \subseteq call.removed
  /\ store["app_theme"] # StNull

\* C20: when the bulk remove fails, with no key or some keys removed,
\* clearOAuthStorage() and logout() reject.
C20_RemoveFailureRejects ==
  (call.op \in {"clearOAuthStorage", "logout"} /\ call.failed) => call.threw

\* logout rejected after the bulk remove had removed the access token only
C20_Witness ==
  /\ call.op = "logout"
  /\ call.failed
  /\ call.threw
  /\ call.removed = {"access_token"}
  /\ store["token_type"] # StNull

---------------------------------------------------------------------------
(* Claims about the retry action and about overlapping attempts *)

\* C27: the screen offers the retry action exactly while the status is
\* 'error', so a press of it never happens while an attempt is in flight.
C27_NoRetryWhileInFlight ==
  [][last'.ev = "press" => (shown.status = "error" /\ inflight = {})]_vars

\* C28: a press of the retry action invokes exactly one handler: onRetry when
\* the caller gave one, and then retry() is not called and no attempt starts;
\* the hook's retry() otherwise.
C28_OneHandlerPerPress ==
  [][last'.ev = "press" =>
       IF props.onRetry
       THEN /\ last'.calls = <<Call("onRetry", NoPayload)>>
            /\ callerCalls' = callerCalls
            /\ inflight' = inflight
            /\ status' = status
       ELSE /\ last'.calls = <<>>
            /\ callerCalls' = callerCalls + 1
            /\ inflight' = inflight \cup {last'.attempt}
            /\ last'.attempt \notin inflight]_vars

\* The retry action was pressed on a screen that was given onRetry
C28_Witness ==
  /\ last.ev = "press"
  /\ props.onRetry
  /\ last.calls = <<Call("onRetry", NoPayload)>>
  /\ shown.status = "error"

\* The retry action was pressed on a screen without onRetry
C28_WitnessRetry ==
  /\ last.ev = "press"
  /\ ~props.onRetry
  /\ last.attempt.origin = "retry"
  /\ status = "processing"

\* C29: when attempts overlap, status and message end as those of the attempt
\* started last: an attempt started earlier that settles after the one
\* started last has settled changes neither.
C29_LastStartedWins ==
  [][(/\ last'.ev = "settle"
      /\ last'.mounted
      /\ last'.attempt.id < handleCalls
      /\ \A a \in inflight : a.id # handleCalls) =>
       (status' = status /\ message' = message)]_vars

---------------------------------------------------------------------------
(* Claims about the storage wrappers *)

\* The pieces of a message, and whether each of the keys is one of them
Names(parts, keys) == \A i \in 1..Len(keys) : \E j \in 1..Len(parts) : parts[j] = keys[i]
EndsWith(parts, tail) ==
  /\ Len(tail) <= Len(parts)
  /\ SubSeq(parts, Len(parts) - Len(tail) + 1, Len(parts)) = tail

\* C21: setItem, getItem, removeItem and removeItems reject exactly when the
\* AsyncStorage call rejects, with an Error whose message names the key(s)
\* and ends with the cause; no value is returned in its place.
C21_StoreFailureRethrown ==
  call.op \in {"setItem", "getItem", "removeItem", "removeItems"} =>
    /\ call.threw <=> call.cause.rejects
    /\ call.cause.rejects =>
         /\ call.error.isError
         /\ Names(call.error.message, call.keys)
         /\ EndsWith(call.error.message, CauseString(call.cause))
         /\ call.value = StUndefined

\* getItem of a stored key rejected because AsyncStorage rejected with an Error
C21_Witness ==
  /\ call.op = "getItem"
  /\ call.cause = StoreOutcome(TRUE, TRUE, "Storage error")
  /\ call.threw
  /\ store[call.keys[1]] # StNull

---------------------------------------------------------------------------
(* Claims about PKCE generation *)

UnreservedChars ==
  {"A", "B", "C", "D", "E", "F", "G", "H", "I", "J", "K", "L", "M", "N", "O", "P", "Q",
   "R", "S", "T", "U", "V", "W", "X", "Y", "Z", "a", "b", "c", "d", "e", "f", "g", "h",
   "i", "j", "k", "l", "m", "n", "o", "p", "q", "r", "s", "t", "u", "v", "w", "x", "y",
   "z", "0", "1", "2", "3", "4", "5", "6", "7", "8", "9"} \cup {"-", ".", "_", "~"}

ChallengeReturned ==
  /\ pkce.pc = "done"
  /\ pkce.op \in {"generateCodeChallenge", "generatePKCEParams"}
  /\ ~pkce.threw

\* C22: every result of generateCodeChallenge has a codeVerifier of exactly
\* 128 characters, each one of the 66 characters A-Z a-z 0-9 - . _ ~, and
\* codeChallengeMethod 'S256'.
C22_VerifierShape ==
  ChallengeReturned =>
    /\ Len(pkce.result.codeVerifier) = 128
    /\ \A i \in 1..Len(pkce.result.codeVerifier) : pkce.result.codeVerifier[i] \in UnreservedChars
    /\ Cardinality(UnreservedChars) = 66
    /\ pkce.result.codeChallengeMethod = "S256"

\* A challenge returned whose verifier has the first and the last character of the set
C22_Witness ==
  /\ ChallengeReturned
  /\ pkce.op = "generateCodeChallenge"
  /\ \E i, j \in 1..Len(pkce.result.codeVerifier) :
       pkce.result.codeVerifier[i] = "A" /\ pkce.result.codeVerifier[j] = "~"

\* The base64url form of a base64 string, character by character
UrlChar(c) == IF c = "+" THEN "-" ELSE IF c = "/" THEN "_" ELSE c
Unpadded(b64) == SelectSeq(b64, LAMBDA c : c # "=")
UrlForm(b64) == [i \in 1..Len(Unpadded(b64)) |-> UrlChar(Unpadded(b64)[i])]

\* C23: the codeChallenge returned is the base64 digest of that call's
\* codeVerifier with '+' replaced by '-', '/' by '_' and '=' removed; it
\* holds none of '+', '/', '='.
C23_ChallengeIsBase64Url ==
  ChallengeReturned =>
    /\ pkce.digestArg = pkce.result.codeVerifier
    /\ pkce.result.codeChallenge = UrlForm(pkce.digest.value)
    /\ \A i \in 1..Len(pkce.result.codeChallenge) :
         pkce.result.codeChallenge[i] \notin {"+", "/", "="}

\* A challenge made from a digest that holds '+', '/' and '='
C23_Witness ==
  /\ ChallengeReturned
  /\ pkce.op = "generateCodeChallenge"
  /\ \A c \in {"+", "/", "="} : \E i \in 1..Len(pkce.digest.value) : pkce.digest.value[i] = c

\* C24: when the digest or the random source fails, the call rejects with
\* that same error and returns nothing, whichever of generateCodeChallenge,
\* generateState, generatePKCEParams and generateAuthUrl it is.
C24_CryptoFailurePropagates ==
  (pkce.pc = "done" /\ (pkce.digest.rejects \/ pkce.uuid.rejects)) =>
    /\ pkce.threw
    /\ pkce.error = (IF pkce.digest.rejects THEN pkce.digest.cause ELSE pkce.uuid.cause)
    /\ pkce.result = NoResult

\* generateAuthUrl rejected because the random source failed after the digest was made
C24_Witness ==
  /\ pkce.pc = "done"
  /\ pkce.op = "generateAuthUrl"
  /\ pkce.uuid.rejects
  /\ pkce.challenge.codeChallenge # <<>>
  /\ pkce.threw

---------------------------------------------------------------------------
(* Claims about the HTTP adapter *)

\* C25: when fetch rejects, or reading the response body fails, post() /
\* get() reject with an Error whose message is 'Network request failed: '
\* followed by the cause; fetch was called once and no response is returned.
C25_NetworkFailureWrapped ==
  /\ http.pc # "idle" => http.fetchCalls = 1
  /\ (http.pc = "done" /\ (http.fetched.rejects \/ http.read.rejects)) =>
       /\ http.threw
       /\ http.error.isError
       /\ http.error.message =
            <<"Network request failed: ">>
              \o CauseString(IF http.fetched.rejects THEN http.fetched ELSE http.read)
       /\ http.reply = NoReply

\* A request whose fetch resolved with status 200 and whose body could not be parsed
C25_Witness ==
  /\ http.pc = "done"
  /\ http.response.status = 200
  /\ ReadsJson(http.response.contentType)
  /\ http.read = StoreOutcome(TRUE, TRUE, "Storage error")
  /\ http.threw

\* The entries of an object that a form body carries, and its text
Present(entries) == SelectSeq(entries, LAMBDA e : e.v # JsNull /\ e.v # JsUndefined)
FormFields(text) == {<<text[i - 1], text[i + 1]>> : i \in {j \in 2..(Len(text) - 1) : text[j] = "="}}

\* C26: the request headers are the defaults (Content-Type and Accept both
\* application/json) overridden by the caller's; a POST body is the form
\* encoding of the data without its null / undefined fields exactly when the
\* request's Content-Type is 'application/x-www-form-urlencoded', otherwise
\* its JSON serialization; a GET request has no body.
C26_RequestEncoding ==
  http.pc # "idle" =>
    /\ DOMAIN http.request.headers = {"Content-Type", "Accept"} \cup DOMAIN http.headers
    /\ \A n \in DOMAIN http.request.headers :
         http.request.headers[n] = IF n \in DOMAIN http.headers THEN http.headers[n]
                                   ELSE "application/json"
    /\ http.method = "GET" => http.request.body.kind = "none"
    /\ http.method = "POST" =>
         /\ http.request.body.kind = "form" <=>
              http.request.headers["Content-Type"] = "application/x-www-form-urlencoded"
         /\ http.request.body.kind = "form" =>
              /\ FormFields(http.request.body.text) =
                   {<<e.k, StringOf(e.v)>> : e \in {Present(http.data.entries)[i] :
                                                     i \in 1..Len(Present(http.data.entries))}}
              /\ Len(http.request.body.text) + 1 = 4 * Len(Present(http.data.entries))
                   \/ (Present(http.data.entries) = <<>> /\ http.request.body.text = <<>>)
         /\ http.request.body.kind # "form" =>
              /\ http.request.body.kind = "json"
              /\ http.request.body.text = JsonStringify(http.data.entries)

\* A form POST whose data holds a null field and a field that is sent
C26_Witness ==
  /\ http.pc = "fetch"
  /\ http.method = "POST"
  /\ http.request.body.kind = "form"
  /\ \E i, j \in 1..Len(http.data.entries) :
       http.data.entries[i].v = JsNull /\ http.data.entries[j].v = JsString("X")

---------------------------------------------------------------------------
(* Claims about the order of events within an attempt *)

Delegation == <<"processing", "normalized", "coreCalled", "coreSettled">>
Outcome == {"success", "error"}

---------------------------------------------------------------------------
(* Claims about messages, autoStart and the callbacks of an attempt *)

\* The delegated call ended in a failure that carries no reason
NoReasonGiven(out) ==
  \/ out.kind = "resolve" /\ ~out.success /\ out.error \in {JsUndefined, JsString("")}
  \/ out.kind = "reject" /\ ~out.isError

\* C31: when an attempt fails without a specific reason (a failure result
\* without error text, or a thrown value that is no Error) the message is
\* the one generic message, 'Unknown error occurred'; a specific reason
\* (the Error's message, the result's error text) is shown when there is one.
C31_OneGenericMessage ==
  (last.ev = "settle" /\ last.mounted) =>
    /\ NoReasonGiven(last.out) => message = "Unknown error occurred"
    /\ (last.out.kind = "reject" /\ last.out.isError) => message = last.out.message
    /\ (last.out.kind = "resolve" /\ ~last.out.success /\ ~NoReasonGiven(last.out)) =>
         message = last.out.error.s

\* C32: a mount or a render with autoStart false starts no attempt, invokes
\* no callback and leaves status and message alone; as long as no attempt
\* was started the status is 'processing' with the default message and no
\* callback has been invoked.
C32_NoAutoStart ==
  [][/\ (last'.ev \in {"mount", "render"} /\ props'.autoStart = FALSE) =>
          /\ autoCalls' = autoCalls
          /\ inflight' = inflight
          /\ status' = status
          /\ message' = message
          /\ last'.calls = <<>>
          /\ last'.attempt = NoAttempt
     /\ (autoCalls' = 0 /\ callerCalls' = 0) =>
          /\ status' = "processing"
          /\ message' = "Processing OAuth callback..."
          /\ inflight' = {}
          /\ onSuccessCalls' = 0
          /\ last'.calls = <<>>]_vars

\* Mounted with autoStart false and rendered again with it, nothing started yet
C32_Witness ==
  /\ last.ev = "render"
  /\ props.autoStart = FALSE
  /\ autoCalls = 0
  /\ callerCalls = 0
  /\ status = "processing"

\* The retry() of the caller after such a mount does start an attempt
C32_WitnessCalled ==
  /\ last.ev = "retry"
  /\ props.autoStart = FALSE
  /\ autoCalls = 0
  /\ callerCalls = 1
  /\ inflight # {}

\* C33: an attempt invokes at most one of onSuccess and onError, and an
\* attempt whose delegated call resolved with success leaves the status
\* 'success', also when the onSuccess callback throws.
C33_OneCallbackPerAttempt ==
  (last.ev = "settle" /\ last.mounted) =>
    /\ CountCalls(last.calls, "onSuccess") + CountCalls(last.calls, "onError") <= 1
    /\ (last.out.kind = "resolve" /\ last.out.success) => status = "success"

---------------------------------------------------------------------------
(* Claims about what the session calls leave in the store *)

\* C35: getAccessToken() and isAuthenticated() never remove the PKCE
\* verifier or the CSRF state of a pending authorization attempt: both keys
\* hold after the call what they held before it.
C35_PendingAttemptKept ==
  [][call'.op \in {"getAccessToken", "isAuthenticated"} =>
       \A k \in {"pkce_code_verifier", "oauth_state"} : store'[k] = store[k]]_vars

\* C36: a storeTokens call that rejects because one of its writes failed
\* leaves the store exactly as it was before the call.
C36_StoreTokensAllOrNothing ==
  [][(call'.op = "storeTokens" /\ call'.threw) => store' = store]_vars

---------------------------------------------------------------------------
(* isTokenExpired over what a store can hold under token_expiry: the       *)
(* strings storeTokens writes, and strings written through setItem.        *)

\* The strings setItem('token_expiry', value) is called with
StoredExpiries ==
  { NumberToString(TimeAt(i)) : i \in 0..MaxTicks }
    \cup { <<>>, <<"x">>, Append(NumberToString(TimeAt(MaxTicks)), "x") }

\* storage.setItem('token_expiry', value)
CallSetExpiry ==
  /\ \E cs \in StoredExpiries, fail \in BOOLEAN :
       /\ store' = IF fail THEN store
                   ELSE ApplyWrites(store, <<Write("token_expiry", cs)>>, 1)
       /\ call' = [NoCall EXCEPT !.op = "setItem", !.threw = fail, !.failed = fail]
  /\ UNCHANGED <<outsideSession, now, session>>

ExpiryNext ==
  \/ CallSetExpiry
  \/ CallIsTokenExpired
  \/ Tick

ExpirySpec == SessionInit /\ [][ExpiryNext]_vars

\* A valid decimal number: an optional sign and then digits only
DecimalNumber(cs) ==
  LET signed == Len(cs) > 0 /\ cs[1] \in {"-", "+"}
      first == IF signed THEN 2 ELSE 1
  IN first <= Len(cs) /\ \A i \in first..Len(cs) : IsDigit(cs[i])

\* C37: isTokenExpired returns false only when the expiry it uses, the
\* argument or else the stored token_expiry read as a decimal number, is a
\* number strictly greater than the current time.
C37_FailClosed ==
  (call.op = "isTokenExpired" /\ ~call.threw /\ ~call.bool) =>
    IF call.expiresAt.t \notin {"undefined", "null"}
    THEN call.expiresAt.t = "number" /\ call.expiresAt.n > now
    ELSE /\ store["token_expiry"].t = "string"
         /\ DecimalNumber(store["token_expiry"].cs)
         /\ ParseInt(store["token_expiry"].cs).n > now

---------------------------------------------------------------------------
(* Overlapping session calls: a getAccessToken() and a storeTokens() in    *)
(* progress at once. Neither takes a lock, so the storage calls of the two *)
(* interleave at every await.                                              *)

\* get: where the getAccessToken() call is ("idle": none in progress), seen:
\* the access token it read, value: what the last call returned; put: where
\* the storeTokens() call is, tokens: its argument, written: the setItem
\* calls that resolved, pending: the setItem call issued and not settled
NoWrite == Write("", <<>>)
NoTasks ==
  [get |-> "idle", seen |-> StNull, value |-> StUndefined,
   put |-> "idle", tokens |-> NoTokens, written |-> 0, pending |-> NoWrite]

RaceInit ==
  /\ HookUnused
  /\ AdapterUnused
  /\ SessionIdle
  /\ PkceUnused
  /\ HttpUnused
  /\ LogUnused
  /\ ConfigUnused
  /\ tasks = NoTasks

outsideRace == <<hookVars, adapterVars, pkce, http, log, oauthConfig, call, session, now>>

\* storeTokens(tokens) is called: its first setItem is issued
PutBegin ==
  /\ tasks.put = "idle"
  /\ \E tokens \in TokenInputs :
       tasks' = [tasks EXCEPT !.put = "writing", !.tokens = tokens, !.written = 0,
                              !.pending = StoreTokensWrites(tokens, now)[1]]
  /\ UNCHANGED <<outsideRace, store>>

\* The pending setItem of storeTokens settles: rejected, storeTokens rejects;
\* resolved, the next setItem is issued or storeTokens resolves
PutWrites ==
  /\ tasks.put = "writing"
  /\ \E fail \in BOOLEAN :
       LET ws == StoreTokensWrites(tasks.tokens, now)
           k == tasks.written + 1
       IN IF fail
          THEN /\ store' = store
               /\ tasks' = [tasks EXCEPT !.put = "idle", !.tokens = NoTokens,
                                         !.written = 0, !.pending = NoWrite]
          ELSE /\ store' = ApplyWrites(store, <<tasks.pending>>, 1)
               /\ tasks' = IF k = Len(ws)
                           THEN [tasks EXCEPT !.put = "idle", !.tokens = NoTokens,
                                              !.written = 0, !.pending = NoWrite]
                           ELSE [tasks EXCEPT !.written = k, !.pending = ws[k + 1]]
  /\ UNCHANGED outsideRace

\* getAccessToken() is called: the core's read of the token is issued
GetBegin ==
  /\ tasks.get = "idle"
  /\ tasks' = [tasks EXCEPT !.get = "token", !.seen = StNull, !.value = StUndefined]
  /\ UNCHANGED <<outsideRace, store>>

\* await this.oauthCore.getAccessToken() settles
GetReadsToken ==
  /\ tasks.get = "token"
  /\ \E fail \in BOOLEAN :
       \E accessToken \in {CoreGetAccessToken(store, fail)} :
          tasks' = IF accessToken.threw \/ ~Truthy(accessToken.value)
                   THEN [tasks EXCEPT !.get = "idle", !.value = StNull]
                   ELSE [tasks EXCEPT !.get = "expiry", !.seen = accessToken.value]
  /\ UNCHANGED <<outsideRace, store>>

\* await this.oauthCore.isTokenExpired() settles
GetReadsExpiry ==
  /\ tasks.get = "expiry"
  /\ \E fail \in BOOLEAN :
       \E isExpired \in {CoreIsTokenExpired(store, now, fail)} :
          tasks' = IF isExpired.threw THEN [tasks EXCEPT !.get = "idle", !.value = StNull]
                   ELSE IF isExpired.bool THEN [tasks EXCEPT !.get = "logout"]
                   ELSE [tasks EXCEPT !.get = "idle", !.value = tasks.seen]
  /\ UNCHANGED <<outsideRace, store>>

\* await this.logout() settles, resolved or rejected: null is returned
GetLogsOut ==
  /\ tasks.get = "logout"
  /\ \E rm \in RemoveOutcomes :
       \E out \in {Logout(store, rm.n, rm.rejected)} :
          /\ store' = out.store
          /\ tasks' = [tasks EXCEPT !.get = "idle", !.value = StNull]
  /\ UNCHANGED outsideRace

RaceNext ==
  \/ PutBegin
  \/ PutWrites
  \/ GetBegin
  \/ GetReadsToken
  \/ GetReadsExpiry
  \/ GetLogsOut
  \/ Tick

RaceSpec == RaceInit /\ [][RaceNext]_vars

\* C34: getAccessToken() never removes a token that is not expired: when
\* the logout of a getAccessToken() that observed an expired token settles
\* and the store then holds a token whose stored expiry lies after the
\* current time, written by a storeTokens in the meantime, that token is
\* still stored afterwards.
C34_FreshTokenKept ==
  [][(/\ tasks.get = "logout" /\ tasks'.get = "idle"
      /\ Truthy(store["access_token"])
      /\ ~IsTokenExpired(store, now, StUndefined, FALSE).bool) =>
       \A k \in TokenKeys : store'[k] = store[k]]_vars

---------------------------------------------------------------------------
(* useOAuthConfig: the options change from render to render; config and    *)
(* generateAuthUrl are memoized. A parameter map is a function from the     *)
(* names to the values, a value the sequence of the pieces of its text.    *)

NoParameters == [n \in {} |-> <<>>]

\* options.additionalParameters; NoParameters also stands for undefined,
\* which spreads to nothing
AdditionalParameters ==
  {NoParameters,
   ("prompt" :> <<"login">>),
   ("prompt" :> <<"consent">>) @@ ("audience" :> <<"api">>),
   ("state" :> <<"fixed">>),
   ("code_challenge_method" :> <<"plain">>)}

\* The options of a render: scopes is the identity of the array passed (0:
\* undefined), which is what the dependency list of useMemo compares
OptionsInputs ==
  [clientId : {"client-a", "client-b"}, scopes : {0, 1},
   additionalParameters : AdditionalParameters]

\* useMemo(() => ({clientId, ..., scopes: options.scopes || ['read', 'write']}), [...])
ConfigOf(options) == [clientId |-> options.clientId, scopes |-> options.scopes]

\* The dependency list of the config memo changed between two renders
ConfigDepsChanged(before, after) ==
  before.clientId # after.clientId \/ before.scopes # after.scopes

\* The dependency list [config] of the generateAuthUrl memo changed: config
\* is a new object exactly when its own memo was recomputed
GenerateAuthUrlDeps(before, after) == ConfigDepsChanged(before, after)

\* new URLSearchParams({response_type: 'code', ..., ...additionalParameters})
AuthUrlParams(config, additional, challenge, state) ==
  Spread(("response_type" :> <<"code">>) @@ ("client_id" :> <<config.clientId>>)
           @@ ("redirect_uri" :> <<"redirect">>)
           @@ ("scope" :> IF config.scopes = 0 THEN <<"read", " ", "write">> ELSE <<"openid">>)
           @@ ("state" :> state)
           @@ ("code_challenge" :> challenge.codeChallenge)
           @@ ("code_challenge_method" :> <<challenge.codeChallengeMethod>>),
         additional)

\* What a generateAuthUrl() call returned: NoAuthUrl while none has
NoAuthUrl ==
  [pc |-> "idle", threw |-> FALSE, params |-> NoParameters, codeVerifier |-> <<>>,
   codeChallenge |-> <<>>, state |-> <<>>]

\* generateAuthUrl() of the closure that captured `options` and `config`
ConfigGenerateAuthUrl(config, options, codeVerifier, digest, uuid) ==
  LET challenge == GenerateCodeChallenge(codeVerifier, digest)
      state == GenerateState(uuid)
  IN IF challenge.threw \/ state.threw THEN [NoAuthUrl EXCEPT !.pc = "done", !.threw = TRUE]
     ELSE [pc |-> "done", threw |-> FALSE,
           params |-> AuthUrlParams(config, options.additionalParameters,
                                    challenge.result, state.result.state),
           codeVerifier |-> challenge.result.codeVerifier,
           codeChallenge |-> challenge.result.codeChallenge,
           state |-> state.result.state]

\* What expo-crypto answers the calls of one generateAuthUrl()
ConfigDigests == {Fulfilled(<<"A", "+", "=">>), Fulfilled(<<"/">>), Rejected("Crypto error")}
ConfigVerifiers ==
  {GenerateRandomString(VerifierLength, [i \in 1..MaxPattern |-> r]) : r \in {0, RandomScale - 1}}

\* The first render
ConfigInit ==
  /\ HookUnused
  /\ AdapterUnused
  /\ SessionUnused
  /\ PkceUnused
  /\ HttpUnused
  /\ LogUnused
  /\ TasksUnused
  /\ \E options \in OptionsInputs :
       oauthConfig = [options |-> options, config |-> ConfigOf(options),
                      captured |-> options, url |-> NoAuthUrl]

outsideConfig == <<hookVars, adapterVars, sessionVars, pkce, http, log, tasks>>

\* A render with new options: each memo is recomputed when its dependencies
\* changed, and is the value of the render before otherwise
ConfigRender ==
  /\ \E options \in OptionsInputs :
       oauthConfig' =
         [oauthConfig EXCEPT
            !.options = options,
            !.config = IF ConfigDepsChanged(oauthConfig.options, options)
                       THEN ConfigOf(options) ELSE @,
            !.captured = IF GenerateAuthUrlDeps(oauthConfig.options, options)
                         THEN options ELSE @]
  /\ UNCHANGED outsideConfig

\* The caller calls the generateAuthUrl of the last render and awaits it
CallGenerateAuthUrl ==
  /\ oauthConfig.url.pc = "idle"
  /\ \E codeVerifier \in ConfigVerifiers, digest \in ConfigDigests, uuid \in UuidOutcomes :
       oauthConfig' =
         [oauthConfig EXCEPT
            !.url = ConfigGenerateAuthUrl(oauthConfig.config, oauthConfig.captured,
                                          codeVerifier, digest, uuid)]
  /\ UNCHANGED outsideConfig

\* The caller has the result; the next call can start
ConfigAwaited ==
  /\ oauthConfig.url.pc = "done"
  /\ oauthConfig' = [oauthConfig EXCEPT !.url = NoAuthUrl]
  /\ UNCHANGED outsideConfig

ConfigNext ==
  \/ ConfigRender
  \/ CallGenerateAuthUrl
  \/ ConfigAwaited

ConfigSpec == ConfigInit /\ [][ConfigNext]_vars

\* C38: the authUrl a generateAuthUrl() call returns carries
\* response_type=code, the returned state, the code challenge made with the
\* returned codeVerifier and code_challenge_method=S256, and with them the
\* additional parameters of the options currently supplied, and no others.
C38_AuthUrlParameters ==
  [][(oauthConfig.url.pc = "idle" /\ oauthConfig'.url.pc = "done"
        /\ ~oauthConfig'.url.threw) =>
       LET url == oauthConfig'.url
           additional == oauthConfig.options.additionalParameters
           own == {"response_type", "client_id", "redirect_uri", "scope", "state",
                   "code_challenge", "code_challenge_method"}
       IN /\ url.params["response_type"] = <<"code">>
          /\ url.params["state"] = url.state
          /\ url.params["code_challenge"] = url.codeChallenge
          /\ url.params["code_challenge_method"] = <<"S256">>
          /\ DOMAIN url.params = own \cup DOMAIN additional
          /\ \A n \in DOMAIN additional \ own : url.params[n] = additional[n]]_vars

---------------------------------------------------------------------------
(* The authorization_code flow handler the adapter registers with the core *)
(* (types/index.ts). The core calls handle(params, adapters, config); the  *)
(* exchange is TokenManager.exchangeAuthorizationCode of the core, which   *)
(* posts to the token endpoint and resolves with a result or rejects.      *)

\* URLSearchParams.get(key): the value of the first pair of the key, or null
UrlGet(q, k) ==
  IF \E i \in DOMAIN q : q[i].k = k
  THEN JsString(q[CHOOSE i \in DOMAIN q : q[i].k = k /\ \A j \in 1..(i - 1) : q[j].k # k].s)
  ELSE JsNull

\* What handle() settles with: an OAuthResult, or a rejection
FlowResult(success, error, errorCode) ==
  [kind |-> "resolve", success |-> success, error |-> error, errorCode |-> errorCode]
FlowRejected(thrown) ==
  [kind |-> "reject", success |-> FALSE, error |-> thrown.message, errorCode |-> "none"]
NoFlowResult == [kind |-> "none", success |-> FALSE, error |-> <<>>, errorCode |-> "none"]

MissingCode == FlowResult(FALSE, <<"Missing authorization code">>, "invalid_request")
MissingVerifier == FlowResult(FALSE, <<"Missing PKCE code verifier">>, "invalid_request")

\* Mutant of FlowCaught: no catch block, the thrown value rejects handle()
FlowCaughtRethrows(thrown) == FlowRejected(thrown)

\* catch (error): error instanceof Error ? error.message : 'Token exchange failed'
FlowCaught(thrown) ==
  FlowResult(FALSE,
             IF thrown.isError THEN thrown.message ELSE <<"Token exchange failed">>,
             "token_exchange_failed")

\* How exchangeAuthorizationCode ends (external): a result with success
\* true, a result with success false, a rejection with an Error or with a
\* value that is not one
ExchangeOutcomes ==
  {[rejects |-> FALSE, result |-> FlowResult(TRUE, <<>>, "none"), thrown |-> NoError],
   [rejects |-> FALSE, result |-> FlowResult(FALSE, <<"invalid_grant">>, "invalid_grant"),
    thrown |-> NoError],
   [rejects |-> TRUE, result |-> NoFlowResult, thrown |-> ErrorOf(<<"Network error">>)],
   [rejects |-> TRUE, result |-> NoFlowResult, thrown |-> NoError]}

\* What the handler did: how its read of the verifier and the exchange
\* ended ("none": not started), the HTTP requests issued
FlowTrace(read, exchange, requests) ==
  [read |-> read, exchange |-> exchange, requests |-> requests]

\* The stored verifier when a callback arrives: none, an empty one, one
StoredVerifiers == {StNull, StString(<<>>), StString(<<"v">>)}

FlowInit ==
  /\ HookUnused
  /\ adPc = "idle"
  /\ adParams \in ParamObjects
  /\ adQuery = <<>>
  /\ adCoreOut = FlowTrace("none", "none", 0)
  /\ adResult = NoFlowResult
  /\ \E verifier \in StoredVerifiers :
       store = [EmptyStore EXCEPT !["pkce_code_verifier"] = verifier]
  /\ now = TimeAt(0)
  /\ call = NoCall
  /\ session = NoSession
  /\ PkceUnused
  /\ HttpUnused
  /\ LogUnused
  /\ TasksUnused
  /\ ConfigUnused

outsideFlow == <<hookVars, sessionVars, serviceVars, adParams>>

\* handle(params, ...) up to its first await: without a code it returns,
\* with one the read of the verifier is issued
FlowHandle ==
  /\ adPc = "idle"
  /\ adQuery' = ToUrlParams(adParams, <<>>)
  /\ \E code \in {UrlGet(adQuery', "code")} :
       IF code.t # "string" \/ code.s = ""
       THEN adPc' = "done" /\ adResult' = MissingCode
       ELSE adPc' = "verifier" /\ adResult' = adResult
  /\ UNCHANGED <<outsideFlow, adCoreOut>>

\* await oauthAdapters.storage.getItem('pkce_code_verifier') settles
FlowVerifierSettles ==
  /\ adPc = "verifier"
  /\ \E outcome \in {Resolves} \cup Rejections :
       \E codeVerifier \in {TryGetItem(store, "pkce_code_verifier", outcome)} :
          IF codeVerifier.threw
          THEN /\ adPc' = "done"
               /\ adResult' = FlowCaught(codeVerifier.error)
               /\ adCoreOut' = [adCoreOut EXCEPT !.read = "rejected"]
          ELSE IF ~Truthy(codeVerifier.value)
          THEN /\ adPc' = "done"
               /\ adResult' = MissingVerifier
               /\ adCoreOut' = [adCoreOut EXCEPT !.read = "resolved"]
          ELSE /\ adPc' = "exchange"
               /\ adResult' = adResult
               /\ adCoreOut' = FlowTrace("resolved", "pending", 1)
  /\ UNCHANGED <<outsideFlow, adQuery>>

\* await tokenManager.exchangeAuthorizationCode(...) settles
FlowExchangeSettles ==
  /\ adPc = "exchange"
  /\ \E out \in ExchangeOutcomes :
       /\ adResult' = IF out.rejects THEN FlowCaught(out.thrown) ELSE out.result
       /\ adCoreOut' = [adCoreOut EXCEPT
                          !.exchange = IF out.rejects THEN "rejected" ELSE "resolved"]
  /\ adPc' = "done"
  /\ UNCHANGED <<outsideFlow, adQuery>>

FlowNext ==
  \/ FlowHandle
  \/ FlowVerifierSettles
  \/ FlowExchangeSettles

FlowSpec == FlowInit /\ [][FlowNext]_vars

CodePresent == UrlGet(adQuery, "code").t = "string" /\ UrlGet(adQuery, "code").s # ""
VerifierPresent == Truthy(store["pkce_code_verifier"])
InvalidRequest ==
  /\ adResult.kind = "resolve" /\ ~adResult.success
  /\ adResult.errorCode = "invalid_request"
  /\ adCoreOut.requests = 0
ExchangeFailed ==
  /\ adResult.kind = "resolve" /\ ~adResult.success
  /\ adResult.errorCode = "token_exchange_failed"

\* C39: the handler never rejects; it attempts the exchange only when a
\* code parameter and a stored verifier are both present; otherwise it
\* returns success=false with errorCode invalid_request and no HTTP request
\* is issued; an exception of the exchange is returned as success=false with
\* errorCode token_exchange_failed.
C39_FlowHandler ==
  /\ adResult.kind # "reject"
  /\ adCoreOut.exchange # "none" => CodePresent /\ VerifierPresent
  /\ adPc = "done" =>
       /\ ~(CodePresent /\ VerifierPresent) => InvalidRequest
       /\ adCoreOut.exchange = "rejected" => ExchangeFailed

\* C39, amended: the handler never rejects; without a code it returns
\* invalid_request before anything is read; when the read of the verifier
\* resolves with none it returns invalid_request; no HTTP request is issued
\* in either case; it attempts the exchange only with a code and a verifier
\* it read; and whatever is thrown inside the try block, by the read of the
\* verifier or by the exchange, is returned as success=false with errorCode
\* token_exchange_failed, after no HTTP request when it was the read.
C39_FlowHandlerAmended ==
  /\ adResult.kind # "reject"
  /\ adCoreOut.exchange # "none" =>
       CodePresent /\ VerifierPresent /\ adCoreOut.read = "resolved"
  /\ adPc = "done" =>
       /\ ~CodePresent => InvalidRequest /\ adCoreOut.read = "none"
       /\ (CodePresent /\ adCoreOut.read = "resolved" /\ ~VerifierPresent) => InvalidRequest
       /\ adCoreOut.read = "rejected" =>
            ExchangeFailed /\ adCoreOut.requests = 0 /\ adCoreOut.exchange = "none"
       /\ adCoreOut.exchange = "rejected" => ExchangeFailed
       /\ adCoreOut.exchange = "resolved" => adResult.kind = "resolve"

C39_Witness ==
  /\ adPc = "done" /\ CodePresent /\ ~VerifierPresent
  /\ adCoreOut.read = "rejected" /\ ExchangeFailed

C39_WitnessExchange ==
  /\ adPc = "done" /\ adCoreOut.exchange = "rejected" /\ ExchangeFailed

====
